---- MODULE Spec2Model ----
(***************************************************************************)
(* State-machine model of the SADTF distributed block store: the metadata  *)
(* store (block table and file index), the block codec, the replication    *)
(* planner, the node-side block store and the upload / download / delete   *)
(* orchestration of FileOperations, run by client threads that interleave  *)
(* at every metadata call and every network request.                       *)
(***************************************************************************)
EXTENDS Integers, Sequences, FiniteSets, TLC

VARIABLES
    total_blocks,   \* MetadataManager.total_blocks
    block_table,    \* MetadataManager.block_table : block id -> BlockEntry
    file_index,     \* MetadataManager.file_index  : file name -> FileMetadata
    local_files,    \* the client's file system: path -> content (bytes)
    outputs,        \* the download targets: output path -> content written
    nodes,          \* per node: the block files of its blocks directory
    threads,        \* the client threads that run operations
    pc,             \* per thread: position in the operation it runs
    loc,            \* per thread: the local variables of that operation
    acks,           \* history: per thread, the stores acknowledged to its upload,
                    \* the delete requests of its delete that were answered, or
                    \* the requests its download sent and those that yielded data
    rival_ok,       \* history: per thread, an upload that held a free-block list
                    \* sharing an id with this thread's upload returned success
    slot_freed,     \* history: per thread, a delete freed a slot of the free-block
                    \* list of this thread's upload, or of that of a rival that
                    \* then returned success, while the upload held the list
    before,         \* history: per thread, the block table and the file index
                    \* at the start of its delete
    ops,            \* the number of operations that may still be started
    plan_in,        \* planner harness: the inputs given to the planner
    plan_out,       \* planner harness: the assignments it returned
    meta_call,      \* metadata harness: the last call and its outcome
    node_status,    \* Coordinator.nodes: node id -> [activo, ultimo_heartbeat]
    clock,          \* time.time() on the coordinator
    up,             \* per node: it runs, answers pings and reaches the coordinator
    hc,             \* the coordinator's heartbeat thread: its position and locals
    hp,             \* per node: position of the ping handler serving its ping
    marked,         \* history: the nodes a health check has marked inactive
    disk,           \* block_table.json and file_index.json of the metadata directory
    codec,          \* codec harness: a file, a block size, the blocks and the output
    local_store,    \* node harness: a node's blocks directory, counters and handlers
    proc,           \* restart harness: a metadata manager, its two files, its position
    dc,             \* Coordinator.start: position and locals of _discover_nodes, and
                    \* history: the outcome of every ping it made
    net,            \* endpoint harness: a request, the endpoint's response, what the
                    \* requester received and returned
    fr              \* framing harness: a message written to a stream and the reading of it

metaVars == <<total_blocks, block_table, file_index, disk>>
fsVars   == <<local_files, outputs>>
histVars == <<acks, rival_ok, slot_freed, before>>
hbVars   == <<node_status, clock, up, hc, hp, marked>>
unitVars == <<codec, local_store, proc, dc, net, fr>>
auxVars  == <<plan_in, plan_out, meta_call, hbVars, unitVars>>
vars == <<total_blocks, block_table, file_index, local_files, outputs,
          nodes, threads, pc, loc, acks, rival_ok, slot_freed, before, ops,
          plan_in, plan_out, meta_call, node_status, clock, up, hc, hp, marked,
          disk, codec, local_store, proc, dc, net, fr>>

----------------------------------------------------------------------------
(* Sizes of the model *)

NumNodes == 2          \* storage nodes of the concurrent configuration
TotalBlocks == 2       \* block slots of the concurrent configuration
MaxOps == 3            \* operations started in one concurrent behaviour
SeqNumNodes == 2       \* storage nodes of the sequential configuration
SeqTotalBlocks == 5    \* block slots of the sequential configuration
MaxSeqOps == 2         \* operations started in one sequential behaviour
MaxFaultOps == 3       \* operations and faults in one behaviour with faults
MaxBlockId == SeqTotalBlocks   \* the greatest key of a persisted block table
MaxCodecLen == 4       \* bytes of the longest file given to the codec
MaxCodecBlockSize == 3 \* the greatest block size given to the codec
MaxStoreOps == 4       \* requests served by the node of the node harness
MaxRestartCalls == 3   \* mutating calls made in one behaviour of the restart harness
BlockSize == 2         \* block_size_bytes, scaled
NodeCapacity == 6      \* capacidad_mb * 1024 * 1024, scaled
MaxPlanNodes == 4      \* planner harness: node ids 1..MaxPlanNodes
MaxPlanBlocks == 5     \* planner harness: blocks per batch
HbNumNodes == 3        \* nodes of the heartbeat configuration, the coordinator included
TimeoutSeconds == 1    \* timeout_segundos, scaled
MaxTime == 8           \* the clock stops here

Threads == {1, 2}

----------------------------------------------------------------------------
(* Python values *)

None == -1                \* None in an Optional[int] field
NoneStr == "None"         \* None in an Optional[str] field
NoHash == <<>>            \* None in the Optional[str] hash field
NoneList == <<>>          \* None in an Optional[List]; a list l is <<l>>
SomeList(l) == <<l>>

Min(a, b) == IF a < b THEN a ELSE b

RECURSIVE SortedSeq(_)
SortedSeq(S) ==
    IF S = {} THEN <<>>
    ELSE LET m == CHOOSE x \in S : \A y \in S : x <= y
         IN  <<m>> \o SortedSeq(S \ {m})

Range(s) == {s[k] : k \in 1..Len(s)}

Take(s, n) == SubSeq(s, 1, Min(n, Len(s)))

----------------------------------------------------------------------------
(* Block codec: block_manager.py *)

\* hashlib digest: equal digests iff equal data
calculate_hash_bytes(data) == <<"sha256", data>>

\* calculate_file_hash: the digest of the chunks read in order
calculate_file_hash(content) == calculate_hash_bytes(content)

RECURSIVE split_file_to_memory(_)
split_file_to_memory(content) ==
    LET block_data == Take(content, BlockSize)
    IN  IF block_data = <<>> THEN <<>>
        ELSE <<[data |-> block_data, hash |-> calculate_hash_bytes(block_data)]>>
             \o split_file_to_memory(SubSeq(content, Len(block_data) + 1, Len(content)))

RECURSIVE JoinBlocks(_)
JoinBlocks(blocks) ==
    IF blocks = <<>> THEN <<>> ELSE Head(blocks) \o JoinBlocks(Tail(blocks))

\* bytes.hex(): two hexadecimal digits per byte
RECURSIVE Hex(_)
Hex(data) ==
    IF data = <<>> THEN <<>>
    ELSE <<Head(data) \div 16, Head(data) % 16>> \o Hex(Tail(data))

\* bytes.fromhex()
RECURSIVE FromHex(_)
FromHex(digits) ==
    IF Len(digits) < 2 THEN <<>>
    ELSE <<digits[1] * 16 + digits[2]>> \o FromHex(SubSeq(digits, 3, Len(digits)))

----------------------------------------------------------------------------
(* Metadata store: metadata_manager.py *)

FreeEntry(block_id) ==
    [block_id |-> block_id, estado |-> "libre", archivo |-> NoneStr,
     parte |-> None, nodo_primario |-> None, nodo_replica |-> None,
     tamano_bytes |-> None, hash |-> NoHash, fecha_creacion |-> NoneStr]

initialize_empty_table(total) == [b \in 0..(total - 1) |-> FreeEntry(b)]

\* x or None, for an int argument
OrInt(x) == IF x = 0 THEN None ELSE x

FreeIds(bt) == {b \in DOMAIN bt : bt[b].estado = "libre"}

\* variant: the free ids there are, up to count, and no failure
get_free_blocks_up_to(bt, count) ==
    [raised |-> FALSE, value |-> Take(SortedSeq(FreeIds(bt)), count)]

\* get_free_blocks: [raised, value]
get_free_blocks(bt, count) ==
    LET free_blocks == SortedSeq(FreeIds(bt))
    IN  IF Len(free_blocks) < count
        THEN [raised |-> TRUE, value |-> <<>>]
        ELSE [raised |-> FALSE, value |-> Take(free_blocks, count)]

AllocatedEntry(block_id, file_name, block_index, primary_node, replica_node, size_bytes, block_hash) ==
    [block_id |-> block_id, estado |-> "ocupado", archivo |-> file_name,
     parte |-> block_index, nodo_primario |-> OrInt(primary_node),
     nodo_replica |-> OrInt(replica_node), tamano_bytes |-> OrInt(size_bytes),
     hash |-> block_hash, fecha_creacion |-> "now"]

\* variant: an occupied block is not refused
allocate_raises_unknown_only(bt, block_id) == block_id \notin DOMAIN bt

\* allocate_block raises when the block does not exist or is occupied
allocate_raises(bt, block_id) ==
    \/ block_id \notin DOMAIN bt
    \/ bt[block_id].estado = "ocupado"

\* variant: the entry is written without the hash of the block
allocate_block_without_hash(bt, block_id, file_name, block_index, primary_node, replica_node, size_bytes, block_hash) ==
    IF allocate_raises(bt, block_id)
    THEN [raised |-> TRUE, bt |-> bt]
    ELSE [raised |-> FALSE,
          bt |-> [bt EXCEPT ![block_id] =
                     AllocatedEntry(block_id, file_name, block_index, primary_node,
                                    replica_node, size_bytes, NoHash)]]

\* allocate_block: [raised, bt]
allocate_block(bt, block_id, file_name, block_index, primary_node, replica_node, size_bytes, block_hash) ==
    IF allocate_raises(bt, block_id)
    THEN [raised |-> TRUE, bt |-> bt]
    ELSE [raised |-> FALSE,
          bt |-> [bt EXCEPT ![block_id] =
                     AllocatedEntry(block_id, file_name, block_index, primary_node,
                                    replica_node, size_bytes, block_hash)]]

\* variant: only the state of the entry is reset
free_block_keeps_fields(bt, block_id) ==
    IF block_id \notin DOMAIN bt
    THEN [raised |-> TRUE, bt |-> bt]
    ELSE [raised |-> FALSE, bt |-> [bt EXCEPT ![block_id].estado = "libre"]]

\* free_block: [raised, bt]
free_block(bt, block_id) ==
    IF block_id \notin DOMAIN bt
    THEN [raised |-> TRUE, bt |-> bt]
    ELSE [raised |-> FALSE, bt |-> [bt EXCEPT ![block_id] = FreeEntry(block_id)]]

\* the FileMetadata that register_file builds from its resolved arguments
NewFileMetadata(file_name, total_size, block_ids, file_hash) ==
    [nombre |-> file_name,
     tamano_total |-> OrInt(total_size),
     num_bloques |-> Len(block_ids),
     bloques |-> IF block_ids = <<>> THEN NoneList ELSE SomeList(block_ids),
     hash_completo |-> file_hash,
     fecha_subida |-> "now"]

register_raises(fi, file_name) == file_name \in DOMAIN fi

\* register_file: [raised, fi]
register_file(fi, file_name, total_size, block_ids, file_hash) ==
    IF register_raises(fi, file_name)
    THEN [raised |-> TRUE, fi |-> fi]
    ELSE [raised |-> FALSE,
          fi |-> (file_name :> NewFileMetadata(file_name, total_size, block_ids, file_hash))
                 @@ fi]

\* the block ids a record lists (none when bloques is None)
BlockIdsOf(meta) == IF meta.bloques = NoneList THEN <<>> ELSE meta.bloques[1]

\* delete_file: [raised, bt, fi, value]; iterating bloques = None raises after
\* nothing was changed
delete_file(bt, fi, nombre) ==
    IF nombre \notin DOMAIN fi \/ fi[nombre].bloques = NoneList
    THEN [raised |-> TRUE, bt |-> bt, fi |-> fi, value |-> <<>>]
    ELSE LET bloques == BlockIdsOf(fi[nombre])
         IN  [raised |-> FALSE,
              bt |-> [b \in DOMAIN bt |->
                         IF b \in Range(bloques) THEN FreeEntry(b) ELSE bt[b]],
              fi |-> [n \in (DOMAIN fi) \ {nombre} |-> fi[n]],
              value |-> bloques]

file_exists(fi, nombre) == nombre \in DOMAIN fi

\* int(k) of a key that str wrote
IntOfKey(k) == CHOOSE i \in 0..MaxBlockId : ToString(i) = k

\* variant: the file index is written empty
save_to_disk_without_index(bt, fi) ==
    [block_table |-> {<<ToString(k), bt[k]>> : k \in DOMAIN bt},
     file_index |-> {}]

\* _save_to_disk: the two JSON objects, as sets of key/value pairs; the keys of
\* the block table are written with str
save_to_disk(bt, fi) ==
    [block_table |-> {<<ToString(k), bt[k]>> : k \in DOMAIN bt},
     file_index |-> {<<k, fi[k]>> : k \in DOMAIN fi}]

\* _load_from_disk: the tables read back, the keys of the block table through
\* int
load_from_disk(d) ==
    [block_table |-> [b \in {IntOfKey(kv[1]) : kv \in d.block_table} |->
                         (CHOOSE kv \in d.block_table : IntOfKey(kv[1]) = b)[2]],
     file_index |-> [n \in {kv[1] : kv \in d.file_index} |->
                        (CHOOSE kv \in d.file_index : kv[1] = n)[2]]]

\* the files after a mutating call: a call that raised did so before it
\* changed or saved anything
SavedBy(raised, bt, fi) == IF raised THEN disk ELSE save_to_disk(bt, fi)

UsedBlocks(bt) == Cardinality({b \in DOMAIN bt : bt[b].estado = "ocupado"})

\* get_statistics: [raised, used_blocks, free_blocks, total_files]; the sum of
\* the sizes raises on a record whose tamano_total is None
get_statistics(bt, fi) ==
    IF \E n \in DOMAIN fi : fi[n].tamano_total = None
    THEN [raised |-> TRUE, used_blocks |-> 0, free_blocks |-> 0, total_files |-> 0]
    ELSE [raised |-> FALSE, used_blocks |-> UsedBlocks(bt),
          free_blocks |-> Cardinality(DOMAIN bt) - UsedBlocks(bt),
          total_files |-> Cardinality(DOMAIN fi)]

----------------------------------------------------------------------------
(* Replication planner: file_operations.py / coordinator.py *)

\* active_nodes[k] with Python's 0-based index
At(active_nodes, k) == active_nodes[k + 1]

\* variant: the replica is taken at the primary's position
Assignment_replica_at_primary(free_blocks, active_nodes, i) ==
    LET n == Len(active_nodes)
        primary_node == At(active_nodes, i % n)
        replica_node == At(active_nodes, i % n)
    IN  [block_id |-> free_blocks[i + 1],
         primary_node |-> primary_node,
         replica_node |->
             IF primary_node = replica_node /\ n > 1
             THEN At(active_nodes, (i + 2) % n)
             ELSE replica_node]

\* variant: the rotation starts one position later
Assignment_shifted(free_blocks, active_nodes, i) ==
    LET n == Len(active_nodes)
        primary_node == At(active_nodes, (i + 1) % n)
        replica_node == At(active_nodes, (i + 2) % n)
    IN  [block_id |-> free_blocks[i + 1],
         primary_node |-> primary_node,
         replica_node |->
             IF primary_node = replica_node /\ n > 1
             THEN At(active_nodes, (i + 3) % n)
             ELSE replica_node]

Assignment(free_blocks, active_nodes, i) ==
    LET n == Len(active_nodes)
        primary_node == At(active_nodes, i % n)
        replica_node == At(active_nodes, (i + 1) % n)
    IN  [block_id |-> free_blocks[i + 1],
         primary_node |-> primary_node,
         replica_node |->
             IF primary_node = replica_node /\ n > 1
             THEN At(active_nodes, (i + 2) % n)
             ELSE replica_node]

Assignments(free_blocks, active_nodes) ==
    [k \in 1..Len(free_blocks) |-> Assignment(free_blocks, active_nodes, k - 1)]

\* Coordinator.assign_blocks_for_file: [raised, cause, value]; get_free_blocks
\* is called before the active nodes are counted
assign_blocks_for_file(bt, num_blocks, active_nodes) ==
    LET r == get_free_blocks(bt, num_blocks)
    IN  IF r.raised THEN [raised |-> TRUE, cause |-> "exception", value |-> <<>>]
        ELSE IF Len(active_nodes) < 2
        THEN [raised |-> TRUE, cause |-> "nodes", value |-> <<>>]
        ELSE [raised |-> FALSE, cause |-> "none", value |-> Assignments(r.value, active_nodes)]

----------------------------------------------------------------------------
(* Node-side block store: node.py (the coordinator's handlers are the same) *)

EmptyNode == [blocks |-> <<>>, bytes_usados |-> 0, bloques_almacenados |-> 0]

has_space_for_block(ns, block_size) == (ns.bytes_usados + block_size) <= NodeCapacity

\* store_block: [ok, ns]
store_block(ns, block_id, block_data) ==
    IF ~has_space_for_block(ns, Len(block_data))
    THEN [ok |-> FALSE, ns |-> ns]
    ELSE [ok |-> TRUE,
          ns |-> [blocks |-> (block_id :> block_data) @@ ns.blocks,
                  bytes_usados |-> ns.bytes_usados + Len(block_data),
                  bloques_almacenados |-> ns.bloques_almacenados + 1]]

\* retrieve_block: the payload wrapped in a list, or NoneList
retrieve_block(ns, block_id) ==
    IF block_id \notin DOMAIN ns.blocks THEN NoneList ELSE SomeList(ns.blocks[block_id])

\* delete_block: [ok, ns]
delete_block(ns, block_id) ==
    IF block_id \notin DOMAIN ns.blocks
    THEN [ok |-> FALSE, ns |-> ns]
    ELSE [ok |-> TRUE,
          ns |-> [blocks |-> [b \in (DOMAIN ns.blocks) \ {block_id} |-> ns.blocks[b]],
                  bytes_usados |-> ns.bytes_usados - Len(ns.blocks[block_id]),
                  bloques_almacenados |-> ns.bloques_almacenados - 1]]

\* variant: the payload is stored without its hash being compared
handle_upload_block_unverified(ns, block_id, block_data_hex, block_hash) ==
    LET r == store_block(ns, block_id, FromHex(block_data_hex))
    IN  [type |-> IF r.ok THEN "status_response" ELSE "error", ns |-> r.ns]

\* _handle_upload_block: [type, ns]
handle_upload_block(ns, block_id, block_data_hex, block_hash) ==
    LET block_data == FromHex(block_data_hex)
    IN  IF calculate_hash_bytes(block_data) # block_hash
        THEN [type |-> "error", ns |-> ns]
        ELSE LET r == store_block(ns, block_id, block_data)
             IN  [type |-> IF r.ok THEN "status_response" ELSE "error", ns |-> r.ns]

\* _handle_download_block: [type, data]
handle_download_block(ns, block_id) ==
    LET block_data == retrieve_block(ns, block_id)
    IN  IF block_data # NoneList /\ block_data[1] # <<>>
        THEN [type |-> "status_response", data |-> Hex(block_data[1])]
        ELSE [type |-> "error", data |-> <<>>]

\* _handle_delete_block: [type, success, ns]
handle_delete_block(ns, block_id) ==
    LET r == delete_block(ns, block_id)
    IN  [type |-> "status_response", success |-> r.ok, ns |-> r.ns]

----------------------------------------------------------------------------
(* Requests of the orchestrator: file_operations.py *)

\* The orchestrator's view of a node: its block files. The usage counters are
\* kept by the node-side model; to the orchestrator a store rejected for lack
\* of space is an error reply, which it treats like an unanswered request.
NodeWithSpace(blocks) == [blocks |-> blocks, bytes_usados |-> 0, bloques_almacenados |-> 0]

\* _send_block_to_node: [ok, ns]; an unanswered request (connect or read
\* error, timeout) yields no response
send_block_to_node(answered, n, block_id, block_data, block_hash) ==
    IF ~answered
    THEN [ok |-> FALSE, blocks |-> nodes[n]]
    ELSE LET r == handle_upload_block(NodeWithSpace(nodes[n]), block_id, Hex(block_data), block_hash)
         IN  [ok |-> r.type # "error", blocks |-> r.ns.blocks]

\* variant: a request that got no answer counts as a deletion
delete_block_from_node_counts_unanswered(answered, n, block_id) ==
    IF ~answered
    THEN [ok |-> TRUE, blocks |-> nodes[n]]
    ELSE LET r == handle_delete_block(NodeWithSpace(nodes[n]), block_id)
         IN  [ok |-> r.type # "error", blocks |-> r.ns.blocks]

\* _delete_block_from_node: [ok, ns]
delete_block_from_node(answered, n, block_id) ==
    IF ~answered
    THEN [ok |-> FALSE, blocks |-> nodes[n]]
    ELSE LET r == handle_delete_block(NodeWithSpace(nodes[n]), block_id)
         IN  [ok |-> r.type # "error", blocks |-> r.ns.blocks]

\* variant: the node is asked whether or not it is in the active list
retrieve_block_from_node_any_node(answered, block_id, node_id, active_nodes) ==
    IF node_id \notin DOMAIN nodes \/ ~answered THEN NoneList
    ELSE LET r == handle_download_block(NodeWithSpace(nodes[node_id]), block_id)
         IN  IF r.type # "error" THEN SomeList(FromHex(r.data)) ELSE NoneList

\* _retrieve_block_from_node: the payload wrapped in a list, or NoneList
retrieve_block_from_node(answered, block_id, node_id, active_nodes) ==
    IF node_id \notin Range(active_nodes) THEN NoneList
    ELSE IF ~answered THEN NoneList
    ELSE LET r == handle_download_block(NodeWithSpace(nodes[node_id]), block_id)
         IN  IF r.type # "error" THEN SomeList(FromHex(r.data)) ELSE NoneList

----------------------------------------------------------------------------
(* Client threads *)

\* no snapshot taken
NoSnapshot == [bt |-> <<>>, fi |-> <<>>]

NoEntry == [nodo_primario |-> None, nodo_replica |-> None, hash |-> NoHash]

LocInit ==
    [op |-> "none", path |-> NoneStr, active |-> <<>>, free_blocks |-> <<>>,
     i |-> 0, j |-> 0, ok_primary |-> FALSE, bloques |-> <<>>, entry |-> NoEntry,
     hash_completo |-> NoHash, blocks_data |-> <<>>, deleted_count |-> 0,
     rollback_answered |-> TRUE, result |-> "none", cause |-> "none"]

\* the operation returns a FileOperationResult; its other locals are gone
\* (rollback_answered is a record of the run: every delete request of the
\* operation's rollback was answered)
Finish(t, l, result, cause) ==
    /\ pc' = [pc EXCEPT ![t] = "done"]
    /\ loc' = [loc EXCEPT ![t] =
                  [LocInit EXCEPT !.op = l.op, !.path = l.path, !.free_blocks = l.free_blocks,
                                  !.deleted_count = l.deleted_count,
                                  !.rollback_answered = l.rollback_answered,
                                  !.result = result, !.cause = cause]]

Goto(t, l, label) ==
    /\ pc' = [pc EXCEPT ![t] = label]
    /\ loc' = [loc EXCEPT ![t] = l]

FileName(path) == path

BlocksOf(path) == split_file_to_memory(local_files[path])

\* the lists the active-node callback can return: the nodes marked active,
\* in configuration order
ActiveLists == {SortedSeq(S) : S \in SUBSET (DOMAIN nodes)}

\* the sequential client also names a path that does not exist
MissingPaths == IF threads = Threads THEN {} ELSE {"missing"}

Paths == (DOMAIN local_files) \cup MissingPaths

\* the program points of an upload that holds its free-block list
UploadHolding ==
    {"up_send_primary", "up_send_replica", "up_allocate", "up_register",
     "rb_primary", "rb_replica", "rb_free"}

\* the other uploads in progress whose free-block list contains one of `ids`
Holders(t, ids) ==
    {u \in Threads \ {t} : pc[u] \in UploadHolding /\ Range(loc[u].free_blocks) \cap ids # {}}

\* a thread that runs no operation takes the next one; the lowest such thread
\* takes it, the threads being interchangeable
StartOp(t) ==
    /\ pc[t] \in {"idle", "done"}
    /\ \A u \in threads : u < t => pc[u] \notin {"idle", "done"}
    /\ ops > 0
    /\ ops' = ops - 1
    /\ acks' = [acks EXCEPT ![t] = {}]
    /\ rival_ok' = [rival_ok EXCEPT ![t] = FALSE]
    /\ slot_freed' = [slot_freed EXCEPT ![t] = FALSE]

----------------------------------------------------------------------------
(* upload_file *)

\* variant: one active node is enough
UploadBegin_one_node(t, path, active_nodes) ==
    /\ StartOp(t)
    /\ before' = [before EXCEPT ![t] = NoSnapshot]
    /\ LET l == [LocInit EXCEPT !.op = "upload", !.path = path, !.active = active_nodes]
       IN  IF path \notin DOMAIN local_files THEN Finish(t, l, "fail", "not_found")
           ELSE IF file_exists(file_index, FileName(path)) THEN Finish(t, l, "fail", "exists")
           ELSE IF Len(active_nodes) < 1 THEN Finish(t, l, "fail", "nodes")
           ELSE Goto(t, l, "up_get_free")
    /\ UNCHANGED <<metaVars, fsVars, nodes, threads, auxVars>>

\* the validations before the try block
UploadBegin(t, path, active_nodes) ==
    /\ StartOp(t)
    /\ before' = [before EXCEPT ![t] = NoSnapshot]
    /\ LET l == [LocInit EXCEPT !.op = "upload", !.path = path, !.active = active_nodes]
       IN  IF path \notin DOMAIN local_files THEN Finish(t, l, "fail", "not_found")
           ELSE IF file_exists(file_index, FileName(path)) THEN Finish(t, l, "fail", "exists")
           ELSE IF Len(active_nodes) < 2 THEN Finish(t, l, "fail", "nodes")
           ELSE Goto(t, l, "up_get_free")
    /\ UNCHANGED <<metaVars, fsVars, nodes, threads, auxVars>>

\* split, whole-file hash, get_free_blocks and the round-robin assignment
UploadGetFree(t) ==
    /\ pc[t] = "up_get_free"
    /\ LET l == loc[t]
           num_blocks == Len(BlocksOf(l.path))
           r == get_free_blocks(block_table, num_blocks)
       IN  IF r.raised THEN Finish(t, l, "fail", "exception")
           ELSE Goto(t, [l EXCEPT !.free_blocks = r.value],
                     IF num_blocks = 0 THEN "up_register" ELSE "up_send_primary")
    /\ UNCHANGED <<metaVars, fsVars, nodes, threads, histVars, ops, auxVars>>

\* variant: the block is allocated once its primary node has acknowledged it
UploadSendPrimary_then_allocate(t, answered) ==
    /\ pc[t] = "up_send_primary"
    /\ LET l == loc[t]
           a == Assignment(l.free_blocks, l.active, l.i)
           b == BlocksOf(l.path)[l.i + 1]
           r == send_block_to_node(answered, a.primary_node, a.block_id, b.data, b.hash)
       IN  /\ nodes' = [nodes EXCEPT ![a.primary_node] = r.blocks]
           /\ acks' = [acks EXCEPT ![t] =
                          IF r.ok THEN @ \cup {<<a.block_id, a.primary_node>>} ELSE @]
           /\ Goto(t, [l EXCEPT !.ok_primary = r.ok],
                   IF r.ok THEN "up_allocate" ELSE "up_send_replica")
    /\ UNCHANGED <<metaVars, fsVars, threads, rival_ok, slot_freed, before, ops, auxVars>>

UploadSendPrimary(t, answered) ==
    /\ pc[t] = "up_send_primary"
    /\ LET l == loc[t]
           a == Assignment(l.free_blocks, l.active, l.i)
           b == BlocksOf(l.path)[l.i + 1]
           r == send_block_to_node(answered, a.primary_node, a.block_id, b.data, b.hash)
       IN  /\ nodes' = [nodes EXCEPT ![a.primary_node] = r.blocks]
           /\ acks' = [acks EXCEPT ![t] =
                          IF r.ok THEN @ \cup {<<a.block_id, a.primary_node>>} ELSE @]
           /\ Goto(t, [l EXCEPT !.ok_primary = r.ok], "up_send_replica")
    /\ UNCHANGED <<metaVars, fsVars, threads, rival_ok, slot_freed, before, ops, auxVars>>

\* variant: only the replica's result is tested
UploadSendReplica_ignores_primary(t, answered) ==
    /\ pc[t] = "up_send_replica"
    /\ LET l == loc[t]
           a == Assignment(l.free_blocks, l.active, l.i)
           b == BlocksOf(l.path)[l.i + 1]
           r == send_block_to_node(answered, a.replica_node, a.block_id, b.data, b.hash)
       IN  /\ nodes' = [nodes EXCEPT ![a.replica_node] = r.blocks]
           /\ acks' = [acks EXCEPT ![t] =
                          IF r.ok THEN @ \cup {<<a.block_id, a.replica_node>>} ELSE @]
           /\ IF ~r.ok
              THEN IF l.i = 0
                   THEN Finish(t, l, "fail", "send")
                   ELSE Goto(t, [l EXCEPT !.j = 0], "rb_primary")
              ELSE Goto(t, l, "up_allocate")
    /\ UNCHANGED <<metaVars, fsVars, threads, rival_ok, slot_freed, before, ops, auxVars>>

\* the send to the replica and the test of both results
UploadSendReplica(t, answered) ==
    /\ pc[t] = "up_send_replica"
    /\ LET l == loc[t]
           a == Assignment(l.free_blocks, l.active, l.i)
           b == BlocksOf(l.path)[l.i + 1]
           r == send_block_to_node(answered, a.replica_node, a.block_id, b.data, b.hash)
       IN  /\ nodes' = [nodes EXCEPT ![a.replica_node] = r.blocks]
           /\ acks' = [acks EXCEPT ![t] =
                          IF r.ok THEN @ \cup {<<a.block_id, a.replica_node>>} ELSE @]
           /\ IF ~l.ok_primary \/ ~r.ok
              THEN IF l.i = 0
                   THEN Finish(t, l, "fail", "send")
                   ELSE Goto(t, [l EXCEPT !.j = 0], "rb_primary")
              ELSE Goto(t, l, "up_allocate")
    /\ UNCHANGED <<metaVars, fsVars, threads, rival_ok, slot_freed, before, ops, auxVars>>

UploadAllocate(t) ==
    /\ pc[t] = "up_allocate"
    /\ LET l == loc[t]
           a == Assignment(l.free_blocks, l.active, l.i)
           b == BlocksOf(l.path)[l.i + 1]
           r == allocate_block(block_table, a.block_id, FileName(l.path), l.i, a.primary_node, a.replica_node, Len(b.data), b.hash)
       IN  /\ block_table' = r.bt
           /\ disk' = SavedBy(r.raised, r.bt, file_index)
           /\ IF r.raised THEN Finish(t, l, "fail", "exception")
              ELSE Goto(t, [l EXCEPT !.i = l.i + 1],
                        IF l.i + 1 = Len(l.free_blocks) THEN "up_register"
                        ELSE "up_send_primary")
    /\ UNCHANGED <<total_blocks, file_index, fsVars, nodes, threads, histVars, ops, auxVars>>

UploadRegister(t) ==
    /\ pc[t] = "up_register"
    /\ LET l == loc[t]
           r == register_file(file_index, FileName(l.path), Len(local_files[l.path]), l.free_blocks, calculate_file_hash(local_files[l.path]))
       IN  /\ file_index' = r.fi
           /\ disk' = SavedBy(r.raised, block_table, r.fi)
           /\ IF r.raised
              THEN Finish(t, l, "fail", "exception") /\ UNCHANGED <<rival_ok, slot_freed>>
              ELSE /\ Finish(t, l, "ok", "none")
                   /\ rival_ok' = [u \in Threads |->
                                      rival_ok[u] \/ u \in Holders(t, Range(l.free_blocks))]
                   /\ slot_freed' = [u \in Threads |->
                                        slot_freed[u]
                                        \/ (slot_freed[t] /\ u \in Holders(t, Range(l.free_blocks)))]
    /\ UNCHANGED <<total_blocks, block_table, fsVars, nodes, threads, acks, before, ops, auxVars>>

(* _rollback_upload(assignments[:i]) *)

RollbackPrimary(t, answered) ==
    /\ pc[t] = "rb_primary"
    /\ LET l == loc[t]
           a == Assignment(l.free_blocks, l.active, l.j)
           r == delete_block_from_node(answered, a.primary_node, a.block_id)
       IN  /\ nodes' = [nodes EXCEPT ![a.primary_node] = r.blocks]
           /\ Goto(t, [l EXCEPT !.rollback_answered = @ /\ answered], "rb_replica")
    /\ UNCHANGED <<metaVars, fsVars, threads, histVars, ops, auxVars>>

RollbackReplica(t, answered) ==
    /\ pc[t] = "rb_replica"
    /\ LET l == loc[t]
           a == Assignment(l.free_blocks, l.active, l.j)
           r == delete_block_from_node(answered, a.replica_node, a.block_id)
       IN  /\ nodes' = [nodes EXCEPT ![a.replica_node] = r.blocks]
           /\ Goto(t, [l EXCEPT !.rollback_answered = @ /\ answered], "rb_free")
    /\ UNCHANGED <<metaVars, fsVars, threads, histVars, ops, auxVars>>

\* variant: the rollback leaves the slot as it is
RollbackFree_keeps_slot(t) ==
    /\ pc[t] = "rb_free"
    /\ LET l == loc[t]
       IN  IF l.j + 1 = l.i
           THEN Finish(t, l, "fail", "send")
           ELSE Goto(t, [l EXCEPT !.j = l.j + 1], "rb_primary")
    /\ UNCHANGED <<metaVars, fsVars, nodes, threads, histVars, ops, auxVars>>

RollbackFree(t) ==
    /\ pc[t] = "rb_free"
    /\ LET l == loc[t]
           a == Assignment(l.free_blocks, l.active, l.j)
           r == free_block(block_table, a.block_id)
       IN  /\ block_table' = r.bt
           /\ disk' = SavedBy(r.raised, r.bt, file_index)
           /\ IF l.j + 1 = l.i
              THEN Finish(t, l, "fail", "send")
              ELSE Goto(t, [l EXCEPT !.j = l.j + 1], "rb_primary")
    /\ UNCHANGED <<total_blocks, file_index, fsVars, nodes, threads, histVars, ops, auxVars>>

----------------------------------------------------------------------------
(* download_file *)

OutputPath == "out"

\* formatting tamano_total with {:,} raises for None
FormatRaises(meta) == meta.tamano_total = None

EntryOf(bt, block_id) ==
    [nodo_primario |-> bt[block_id].nodo_primario,
     nodo_replica |-> bt[block_id].nodo_replica,
     hash |-> bt[block_id].hash]

NoData(block_data) == block_data = NoneList \/ block_data[1] = <<>>

\* the validations and get_file_metadata
DownloadBegin(t, file_name, active_nodes) ==
    /\ StartOp(t)
    /\ before' = [before EXCEPT ![t] = NoSnapshot]
    /\ LET l == [LocInit EXCEPT !.op = "download", !.path = file_name, !.active = active_nodes]
       IN  IF ~file_exists(file_index, file_name) THEN Finish(t, l, "fail", "not_found")
           ELSE IF OutputPath \in DOMAIN outputs THEN Finish(t, l, "fail", "exists")
           ELSE IF FormatRaises(file_index[file_name]) \/ file_index[file_name].bloques = NoneList
                THEN Finish(t, l, "fail", "exception")
           ELSE Goto(t, [l EXCEPT !.bloques = BlockIdsOf(file_index[file_name]),
                                  !.hash_completo = file_index[file_name].hash_completo],
                     "dl_entry")
    /\ UNCHANGED <<metaVars, fsVars, nodes, threads, auxVars>>

\* get_block_entry
DownloadEntry(t) ==
    /\ pc[t] = "dl_entry"
    /\ Goto(t, [loc[t] EXCEPT !.entry = EntryOf(block_table, loc[t].bloques[loc[t].i + 1])], "dl_primary")
    /\ UNCHANGED <<metaVars, fsVars, nodes, threads, histVars, ops, auxVars>>

\* variant: the output is kept without comparing its hash
DownloadWrite_unverified(t, l) ==
    /\ outputs' = (OutputPath :> JoinBlocks(l.blocks_data)) @@ outputs
    /\ Finish(t, l, "ok", "none")

\* every block retrieved: write the output, verify the whole-file hash
DownloadWrite(t, l) ==
    LET content == JoinBlocks(l.blocks_data)
    IN  IF calculate_file_hash(content) # l.hash_completo
        THEN /\ outputs' = [o \in (DOMAIN outputs) \ {OutputPath} |-> outputs[o]]
             /\ Finish(t, l, "fail", "file_hash")
        ELSE /\ outputs' = (OutputPath :> content) @@ outputs
             /\ Finish(t, l, "ok", "none")

\* the checks on a retrieved block and the step to the next one
DownloadAccept(t, l, block_data) ==
    IF NoData(block_data)
    THEN Finish(t, l, "fail", "retrieve") /\ UNCHANGED outputs
    ELSE IF calculate_hash_bytes(block_data[1]) # l.entry.hash
    THEN Finish(t, l, "fail", "block_hash") /\ UNCHANGED outputs
    ELSE LET l2 == [l EXCEPT !.blocks_data = Append(@, block_data[1]), !.i = l.i + 1,
                             !.entry = NoEntry]
         IN  IF l2.i = Len(l.bloques)
             THEN DownloadWrite(t, l2)
             ELSE Goto(t, l2, "dl_entry") /\ UNCHANGED outputs

\* history: the request sent to node_id for the current block, and its yield
Contacts(l, node_id, block_data) ==
    (IF node_id \in Range(l.active) THEN {<<l.bloques[l.i + 1], node_id, "asked">>} ELSE {})
    \cup (IF NoData(block_data) THEN {} ELSE {<<l.bloques[l.i + 1], node_id, "data">>})

\* the retrieval from the primary node
DownloadPrimary(t, answered) ==
    /\ pc[t] = "dl_primary"
    /\ LET l == loc[t]
           block_data == retrieve_block_from_node(answered, l.bloques[l.i + 1], l.entry.nodo_primario, l.active)
       IN  /\ acks' = [acks EXCEPT ![t] = @ \cup Contacts(l, l.entry.nodo_primario, block_data)]
           /\ IF NoData(block_data) /\ l.entry.nodo_replica # None
              THEN Goto(t, l, "dl_replica") /\ UNCHANGED outputs
              ELSE DownloadAccept(t, l, block_data)
    /\ UNCHANGED <<metaVars, local_files, nodes, threads, rival_ok, slot_freed, before, ops, auxVars>>

\* the retrieval from the replica node
DownloadReplica(t, answered) ==
    /\ pc[t] = "dl_replica"
    /\ LET l == loc[t]
           block_data == retrieve_block_from_node(answered, l.bloques[l.i + 1], l.entry.nodo_replica, l.active)
       IN  /\ acks' = [acks EXCEPT ![t] = @ \cup Contacts(l, l.entry.nodo_replica, block_data)]
           /\ DownloadAccept(t, l, block_data)
    /\ UNCHANGED <<metaVars, local_files, nodes, threads, rival_ok, slot_freed, before, ops, auxVars>>

----------------------------------------------------------------------------
(* delete_file *)

\* the validation and get_file_metadata; enumerate(None) raises
DeleteBegin(t, file_name, active_nodes) ==
    /\ StartOp(t)
    /\ before' = [before EXCEPT ![t] = [bt |-> block_table, fi |-> file_index]]
    /\ LET l == [LocInit EXCEPT !.op = "delete", !.path = file_name]
       IN  IF ~file_exists(file_index, file_name) THEN Finish(t, l, "fail", "not_found")
           ELSE IF file_index[file_name].bloques = NoneList THEN Finish(t, l, "fail", "exception")
           ELSE Goto(t, [l EXCEPT !.bloques = BlockIdsOf(file_index[file_name])], "de_entry")
    /\ UNCHANGED <<metaVars, fsVars, nodes, threads, auxVars>>

\* get_block_entry
DeleteEntry(t) ==
    /\ pc[t] = "de_entry"
    /\ Goto(t, [loc[t] EXCEPT !.entry = EntryOf(block_table, loc[t].bloques[loc[t].i + 1])], "de_primary")
    /\ UNCHANGED <<metaVars, fsVars, nodes, threads, histVars, ops, auxVars>>

DeletePrimary(t, answered) ==
    /\ pc[t] = "de_primary"
    /\ LET l == loc[t]
           n == l.entry.nodo_primario
       IN  IF n = None
           THEN Goto(t, l, "de_replica") /\ UNCHANGED <<nodes, acks>>
           ELSE LET r == delete_block_from_node(answered, n, l.bloques[l.i + 1])
                IN  /\ nodes' = [nodes EXCEPT ![n] = r.blocks]
                    /\ acks' = [acks EXCEPT ![t] =
                                   IF answered THEN @ \cup {<<l.bloques[l.i + 1], n>>} ELSE @]
                    /\ Goto(t, [l EXCEPT !.deleted_count = IF r.ok THEN @ + 1 ELSE @], "de_replica")
    /\ UNCHANGED <<metaVars, fsVars, threads, rival_ok, slot_freed, before, ops, auxVars>>

DeleteReplica(t, answered) ==
    /\ pc[t] = "de_replica"
    /\ LET l == loc[t]
           n == l.entry.nodo_replica
       IN  IF n = None
           THEN Goto(t, l, "de_free") /\ UNCHANGED <<nodes, acks>>
           ELSE LET r == delete_block_from_node(answered, n, l.bloques[l.i + 1])
                IN  /\ nodes' = [nodes EXCEPT ![n] = r.blocks]
                    /\ acks' = [acks EXCEPT ![t] =
                                   IF answered THEN @ \cup {<<l.bloques[l.i + 1], n>>} ELSE @]
                    /\ Goto(t, [l EXCEPT !.deleted_count = IF r.ok THEN @ + 1 ELSE @], "de_free")
    /\ UNCHANGED <<metaVars, fsVars, threads, rival_ok, slot_freed, before, ops, auxVars>>

\* free_block, then the next block or metadata.delete_file
DeleteFree(t) ==
    /\ pc[t] = "de_free"
    /\ LET l == loc[t]
           r == free_block(block_table, l.bloques[l.i + 1])
       IN  /\ block_table' = r.bt
           /\ disk' = SavedBy(r.raised, r.bt, file_index)
           /\ slot_freed' = [u \in Threads |->
                                slot_freed[u] \/ u \in Holders(t, {l.bloques[l.i + 1]})]
           /\ Goto(t, [l EXCEPT !.i = l.i + 1, !.entry = NoEntry],
                   IF l.i + 1 = Len(l.bloques) THEN "de_file" ELSE "de_entry")
    /\ UNCHANGED <<total_blocks, file_index, fsVars, nodes, threads, acks, rival_ok, before, ops, auxVars>>

DeleteFile(t) ==
    /\ pc[t] = "de_file"
    /\ LET l == loc[t]
           r == delete_file(block_table, file_index, l.path)
       IN  /\ block_table' = r.bt
           /\ file_index' = r.fi
           /\ disk' = SavedBy(r.raised, r.bt, r.fi)
           /\ slot_freed' = [u \in Threads |->
                                slot_freed[u] \/ u \in Holders(t, Range(r.value))]
           /\ IF r.raised THEN Finish(t, l, "fail", "exception")
              ELSE Finish(t, l, "ok", "none")
    /\ UNCHANGED <<total_blocks, fsVars, nodes, threads, acks, rival_ok, before, ops, auxVars>>

----------------------------------------------------------------------------
(* list_files, get_file_info, get_system_statistics *)

\* a call that returns in one step
Returns(t, op, path, result, cause) ==
    /\ pc' = [pc EXCEPT ![t] = "done"]
    /\ loc' = [loc EXCEPT ![t] = [LocInit EXCEPT !.op = op, !.path = path,
                                                 !.result = result, !.cause = cause]]

\* list_files: tamano_total / (1024 * 1024) raises for None, inside the try
ListFiles(t) ==
    /\ StartOp(t)
    /\ before' = [before EXCEPT ![t] = NoSnapshot]
    /\ IF \E n \in DOMAIN file_index : file_index[n].tamano_total = None
       THEN Returns(t, "list", NoneStr, "fail", "exception")
       ELSE Returns(t, "list", NoneStr, "ok", "none")
    /\ UNCHANGED <<metaVars, fsVars, nodes, threads, auxVars>>

\* get_file_info: iterating bloques = None raises, inside the try
GetFileInfo(t, file_name) ==
    /\ StartOp(t)
    /\ before' = [before EXCEPT ![t] = NoSnapshot]
    /\ IF ~file_exists(file_index, file_name)
       THEN Returns(t, "info", file_name, "fail", "not_found")
       ELSE IF file_index[file_name].bloques = NoneList \/ file_index[file_name].tamano_total = None
       THEN Returns(t, "info", file_name, "fail", "exception")
       ELSE Returns(t, "info", file_name, "ok", "none")
    /\ UNCHANGED <<metaVars, fsVars, nodes, threads, auxVars>>

\* variant: a failure of get_statistics is turned into a result
GetSystemStatistics_guarded(t) ==
    /\ StartOp(t)
    /\ before' = [before EXCEPT ![t] = NoSnapshot]
    /\ IF get_statistics(block_table, file_index).raised
       THEN Returns(t, "stats", NoneStr, "fail", "exception")
       ELSE Returns(t, "stats", NoneStr, "ok", "none")
    /\ UNCHANGED <<metaVars, fsVars, nodes, threads, auxVars>>

\* get_system_statistics has no try: what get_statistics raises reaches the
\* caller
GetSystemStatistics(t) ==
    /\ StartOp(t)
    /\ before' = [before EXCEPT ![t] = NoSnapshot]
    /\ IF get_statistics(block_table, file_index).raised
       THEN Returns(t, "stats", NoneStr, "raise", "exception")
       ELSE Returns(t, "stats", NoneStr, "ok", "none")
    /\ UNCHANGED <<metaVars, fsVars, nodes, threads, auxVars>>

----------------------------------------------------------------------------
(* Coordinator.assign_blocks_for_file, called on the coordinator *)

\* the call returns its assignments or raises; the caller keeps what it passed
\* and what it got
AssignBlocks(t, num_blocks, active_nodes) ==
    /\ StartOp(t)
    /\ before' = [before EXCEPT ![t] = NoSnapshot]
    /\ LET r == assign_blocks_for_file(block_table, num_blocks, active_nodes)
       IN  /\ pc' = [pc EXCEPT ![t] = "done"]
           /\ loc' = [loc EXCEPT ![t] =
                         [LocInit EXCEPT !.op = "assign", !.active = active_nodes,
                                         !.free_blocks = [k \in 1..Len(r.value) |-> r.value[k].block_id],
                                         !.result = IF r.raised THEN "fail" ELSE "ok",
                                         !.cause = r.cause]]
    /\ UNCHANGED <<metaVars, fsVars, nodes, threads, auxVars>>

----------------------------------------------------------------------------
(* The planner applied to drawn inputs *)

NoPlanCall == [caller |-> "none", num_blocks |-> 0, active |-> <<>>]

NoPlan == [raised |-> FALSE, cause |-> "none", value |-> <<>>]

\* the lists of pairwise different node ids over 1..MaxPlanNodes, in any order
PlanLists ==
    {s \in UNION {[1..k -> 1..MaxPlanNodes] : k \in 0..MaxPlanNodes} :
        \A a, b \in DOMAIN s : a # b => s[a] # s[b]}

\* a table whose slots in S are occupied
OccupiedTable(total, S) ==
    [b \in 0..(total - 1) |->
        IF b \in S THEN AllocatedEntry(b, "x", 0, 1, 2, 1, calculate_hash_bytes(<<0>>))
        ELSE FreeEntry(b)]

\* upload_file: get_free_blocks and the assignment loop, reached with at least
\* two active nodes only
PlanUpload(num_blocks, active_nodes) ==
    /\ plan_in = NoPlanCall
    /\ Len(active_nodes) >= 2
    /\ plan_in' = [caller |-> "upload", num_blocks |-> num_blocks, active |-> active_nodes]
    /\ LET r == get_free_blocks(block_table, num_blocks)
       IN  plan_out' = IF r.raised THEN [raised |-> TRUE, cause |-> "exception", value |-> <<>>]
                       ELSE [raised |-> FALSE, cause |-> "none",
                             value |-> Assignments(r.value, active_nodes)]
    /\ UNCHANGED <<metaVars, fsVars, nodes, threads, pc, loc, histVars, ops, meta_call, hbVars, unitVars>>

\* Coordinator.assign_blocks_for_file
PlanCoordinator(num_blocks, active_nodes) ==
    /\ plan_in = NoPlanCall
    /\ plan_in' = [caller |-> "coordinator", num_blocks |-> num_blocks, active |-> active_nodes]
    /\ plan_out' = assign_blocks_for_file(block_table, num_blocks, active_nodes)
    /\ UNCHANGED <<metaVars, fsVars, nodes, threads, pc, loc, histVars, ops, meta_call, hbVars, unitVars>>

----------------------------------------------------------------------------
(* The block table called directly *)

NoCall == [op |-> "none", block_id |-> None, occupied |-> FALSE, raised |-> FALSE]

\* the arguments drawn for allocate_block
MetaFiles == {"f", "g"}
MetaParts == {0, 1}
MetaNodes == {1, 2}
MetaSizes == {0, 2}

\* the block ids asked for: those of the table and one beyond it
MetaIds == 0..total_blocks

MetaAllocate(block_id, file_name, block_index, primary_node, replica_node, size_bytes) ==
    /\ LET r == allocate_block(block_table, block_id, file_name, block_index, primary_node, replica_node, size_bytes, calculate_hash_bytes(<<size_bytes>>))
       IN  /\ block_table' = r.bt
           /\ disk' = SavedBy(r.raised, r.bt, file_index)
           /\ meta_call' = [op |-> "allocate", block_id |-> block_id,
                            occupied |-> block_id \in DOMAIN block_table
                                         /\ block_table[block_id].estado = "ocupado",
                            raised |-> r.raised]
    /\ UNCHANGED <<total_blocks, file_index, fsVars, nodes, threads, pc, loc, histVars, ops, plan_in, plan_out, hbVars, unitVars>>

MetaFree(block_id) ==
    /\ LET r == free_block(block_table, block_id)
       IN  /\ block_table' = r.bt
           /\ disk' = SavedBy(r.raised, r.bt, file_index)
           /\ meta_call' = [op |-> "free", block_id |-> block_id,
                            occupied |-> block_id \in DOMAIN block_table
                                         /\ block_table[block_id].estado = "ocupado",
                            raised |-> r.raised]
    /\ UNCHANGED <<total_blocks, file_index, fsVars, nodes, threads, pc, loc, histVars, ops, plan_in, plan_out, hbVars, unitVars>>

----------------------------------------------------------------------------
(* A metadata manager that is stopped and started again: metadata_manager.py *)

\* a file of the metadata directory: absent, opened for writing and not yet
\* written in full, or whole
AbsentFile == [state |-> "absent", data |-> {}]

PartialFile == [state |-> "partial", data |-> {}]

WholeFile(data) == [state |-> "whole", data |-> data]

EmptyTables(total) == [block_table |-> initialize_empty_table(total), file_index |-> <<>>]

NoProc == [pc |-> "none", started |-> "no", calls |-> 0,
           mem |-> EmptyTables(0),
           files |-> [block_table |-> AbsentFile, file_index |-> AbsentFile],
           at_stop |-> EmptyTables(0), complete |-> EmptyTables(0)]

ProcFrame ==
    UNCHANGED <<metaVars, fsVars, nodes, threads, pc, loc, histVars, ops,
                plan_in, plan_out, meta_call, hbVars, codec, local_store, dc, net, fr>>

\* __init__ and _load_or_initialize: both files there means load, and json.load
\* raises on a file that was not written in full
ProcStart ==
    /\ proc.pc = "stopped"
    /\ IF proc.files.block_table.state # "absent" /\ proc.files.file_index.state # "absent"
       THEN IF proc.files.block_table.state = "whole" /\ proc.files.file_index.state = "whole"
            THEN proc' = [proc EXCEPT
                             !.pc = "ready", !.started = "loaded",
                             !.mem = load_from_disk([block_table |-> proc.files.block_table.data,
                                                     file_index |-> proc.files.file_index.data])]
            ELSE proc' = [proc EXCEPT !.pc = "failed"]
       ELSE proc' = [proc EXCEPT !.pc = "save", !.started = "initialized",
                                 !.mem = EmptyTables(TotalBlocks)]
    /\ ProcFrame

\* the manager after a mutating call up to its _save_to_disk: a call that
\* raises changes nothing
Called(raised, bt, fi) ==
    IF raised THEN [proc EXCEPT !.calls = @ - 1, !.started = "no"]
    ELSE [proc EXCEPT !.calls = @ - 1, !.started = "no", !.pc = "save",
                      !.mem = [block_table |-> bt, file_index |-> fi]]

ProcAllocate(block_id) ==
    /\ proc.pc = "ready" /\ proc.calls > 0
    /\ LET r == allocate_block(proc.mem.block_table, block_id, "f", 0, 1, 2, 1, calculate_hash_bytes(<<1>>))
       IN  proc' = Called(r.raised, r.bt, proc.mem.file_index)
    /\ ProcFrame

ProcFree(block_id) ==
    /\ proc.pc = "ready" /\ proc.calls > 0
    /\ LET r == free_block(proc.mem.block_table, block_id)
       IN  proc' = Called(r.raised, r.bt, proc.mem.file_index)
    /\ ProcFrame

ProcRegister ==
    /\ proc.pc = "ready" /\ proc.calls > 0
    /\ LET r == register_file(proc.mem.file_index, "f", 1, <<0>>, calculate_hash_bytes(<<1>>))
       IN  proc' = Called(r.raised, proc.mem.block_table, r.fi)
    /\ ProcFrame

ProcDelete ==
    /\ proc.pc = "ready" /\ proc.calls > 0
    /\ LET r == delete_file(proc.mem.block_table, proc.mem.file_index, "f")
       IN  proc' = Called(r.raised, r.bt, r.fi)
    /\ ProcFrame

\* _save_to_disk: open(block_table_file, 'w') truncates the file
SaveOpenTable ==
    /\ proc.pc = "save"
    /\ proc' = [proc EXCEPT !.pc = "table_open", !.files.block_table = PartialFile]
    /\ ProcFrame

SaveDumpTable ==
    /\ proc.pc = "table_open"
    /\ proc' = [proc EXCEPT
                    !.pc = "table_written",
                    !.files.block_table =
                        WholeFile(save_to_disk(proc.mem.block_table, proc.mem.file_index).block_table)]
    /\ ProcFrame

SaveOpenIndex ==
    /\ proc.pc = "table_written"
    /\ proc' = [proc EXCEPT !.pc = "index_open", !.files.file_index = PartialFile]
    /\ ProcFrame

\* the file index is written, the call returns and releases the lock
SaveDumpIndex ==
    /\ proc.pc = "index_open"
    /\ proc' = [proc EXCEPT
                    !.pc = "ready", !.complete = proc.mem,
                    !.files.file_index =
                        WholeFile(save_to_disk(proc.mem.block_table, proc.mem.file_index).file_index)]
    /\ ProcFrame

\* the process stops, between calls or anywhere inside one
ProcStop ==
    /\ proc.pc \in {"ready", "save", "table_open", "table_written", "index_open"}
    /\ proc' = [proc EXCEPT !.pc = "stopped", !.started = "no", !.at_stop = proc.mem]
    /\ ProcFrame

----------------------------------------------------------------------------
(* BlockManager on drawn files and block sizes: block_manager.py *)

CodecBytes == {0, 255}

CodecContents == UNION {[1..n -> CodecBytes] : n \in 0..MaxCodecLen}

\* variant: only the whole blocks are read
RECURSIVE split_file_sized_whole_blocks(_, _)
split_file_sized_whole_blocks(content, block_size_bytes) ==
    IF Len(content) < block_size_bytes THEN <<>>
    ELSE <<[data |-> Take(content, block_size_bytes),
            hash |-> calculate_hash_bytes(Take(content, block_size_bytes))]>>
         \o split_file_sized_whole_blocks(SubSeq(content, block_size_bytes + 1, Len(content)), block_size_bytes)

\* split_file_to_memory of a manager built with block_size_bytes: f.read until
\* it returns nothing
RECURSIVE split_file_sized(_, _)
split_file_sized(content, block_size_bytes) ==
    LET block_data == Take(content, block_size_bytes)
    IN  IF block_data = <<>> THEN <<>>
        ELSE <<[data |-> block_data, hash |-> calculate_hash_bytes(block_data)]>>
             \o split_file_sized(SubSeq(content, Len(block_data) + 1, Len(content)), block_size_bytes)

\* the decimal digits of a natural number
RECURSIVE Digits(_)
Digits(i) == IF i < 10 THEN <<i>> ELSE Digits(i \div 10) \o <<i % 10>>

\* f"bloque_{block_index:03d}.bin": at least three digits
block_filename(block_index) ==
    LET d == Digits(block_index)
    IN  <<"bloque_">> \o [k \in 1..(3 - Min(3, Len(d))) |-> 0] \o d \o <<".bin">>

\* split_file_to_blocks: num_blocks reads of block_size_bytes, each written to
\* its file of the output directory: [dir, infos]
split_file_to_blocks(content, block_size_bytes) ==
    LET num_blocks == (Len(content) + block_size_bytes - 1) \div block_size_bytes
        read(block_index) == SubSeq(content, block_index * block_size_bytes + 1,
                                    Min((block_index + 1) * block_size_bytes, Len(content)))
    IN  [dir |-> [name \in {block_filename(k) : k \in 0..(num_blocks - 1)} |->
                     read(CHOOSE k \in 0..(num_blocks - 1) : block_filename(k) = name)],
         infos |-> [k \in 1..num_blocks |->
                       [block_index |-> k - 1, size_bytes |-> Len(read(k - 1)),
                        hash |-> calculate_hash_bytes(read(k - 1))]]]

\* join_blocks_to_file from block_index on: [ok, out]; it returns False at a
\* missing block or at one whose hash is not the expected one
RECURSIVE JoinFrom(_, _, _, _, _)
JoinFrom(dir, block_index, num_blocks, verify_hashes, out) ==
    IF block_index >= num_blocks THEN [ok |-> TRUE, out |-> out]
    ELSE IF block_filename(block_index) \notin DOMAIN dir THEN [ok |-> FALSE, out |-> out]
    ELSE LET block_data == dir[block_filename(block_index)]
         IN  IF /\ verify_hashes # <<>>
                /\ block_index < Len(verify_hashes)
                /\ verify_hashes[block_index + 1] # calculate_hash_bytes(block_data)
             THEN [ok |-> FALSE, out |-> out]
             ELSE JoinFrom(dir, block_index + 1, num_blocks, verify_hashes, out \o block_data)

join_blocks_to_file(dir, num_blocks, verify_hashes) == JoinFrom(dir, 0, num_blocks, verify_hashes, <<>>)

NoCodec == [content |-> <<>>, block_size |-> 1, phase |-> "none", blocks |-> <<>>,
            dir |-> <<>>, infos |-> <<>>, ok |-> FALSE, out |-> <<>>]

CodecFrame ==
    UNCHANGED <<metaVars, fsVars, nodes, threads, pc, loc, histVars, ops,
                plan_in, plan_out, meta_call, hbVars, local_store, proc, dc, net, fr>>

CodecSplitToMemory ==
    /\ codec.phase = "file"
    /\ codec' = [codec EXCEPT !.phase = "memory",
                              !.blocks = split_file_sized(codec.content, codec.block_size)]
    /\ CodecFrame

\* the blocks are written to the output in their order, as download_file does
CodecWriteBlocks ==
    /\ codec.phase = "memory"
    /\ codec' = [codec EXCEPT !.phase = "written", !.ok = TRUE,
                              !.out = JoinBlocks([k \in 1..Len(codec.blocks) |-> codec.blocks[k].data])]
    /\ CodecFrame

CodecSplitToBlocks ==
    /\ codec.phase = "file"
    /\ LET r == split_file_to_blocks(codec.content, codec.block_size)
       IN  codec' = [codec EXCEPT !.phase = "blocks", !.dir = r.dir, !.infos = r.infos]
    /\ CodecFrame

CodecJoin(verify) ==
    /\ codec.phase = "blocks"
    /\ LET r == join_blocks_to_file(codec.dir, Len(codec.infos),
                                    IF verify THEN [k \in 1..Len(codec.infos) |-> codec.infos[k].hash]
                                    ELSE <<>>)
       IN  codec' = [codec EXCEPT !.phase = "joined", !.ok = r.ok, !.out = r.out]
    /\ CodecFrame

----------------------------------------------------------------------------
(* A node serving store and delete requests, one handler thread per
   connection: node.py, network.py *)

Handlers == {1, 2}

StoreIds == {0, 1}

\* payloads of one, two and four bytes
StoreDatas == {[k \in 1..n |-> 7] : n \in {1, 2, 4}}

IdleHandler == [pc |-> "idle", op |-> "none", block_id |-> 0, block_data |-> <<>>,
                block_size |-> 0, ok |-> FALSE]

NoStore == [blocks |-> <<>>, bytes_usados |-> 0, bloques_almacenados |-> 0,
            h |-> [x \in Handlers |-> IdleHandler], ops |-> 0]

\* the bytes of the block files of a directory
RECURSIVE HeldBytes(_)
HeldBytes(blocks) ==
    IF DOMAIN blocks = {} THEN 0
    ELSE LET b == CHOOSE x \in DOMAIN blocks : TRUE
         IN  Len(blocks[b]) + HeldBytes([x \in (DOMAIN blocks) \ {b} |-> blocks[x]])

StoreFrame ==
    UNCHANGED <<metaVars, fsVars, nodes, threads, pc, loc, histVars, ops,
                plan_in, plan_out, meta_call, hbVars, codec, proc, dc, net, fr>>

HandlerFree(x) == local_store.h[x].pc \in {"idle", "done"} /\ local_store.ops > 0

\* store_block up to the check of the space
StoreCheck(x, block_id, block_data) ==
    /\ HandlerFree(x)
    /\ local_store' =
           [local_store EXCEPT
               !.ops = @ - 1,
               !.h[x] = [pc |-> IF has_space_for_block(local_store, Len(block_data))
                                THEN "write" ELSE "done",
                         op |-> "store", block_id |-> block_id, block_data |-> block_data,
                         block_size |-> Len(block_data), ok |-> FALSE]]
    /\ StoreFrame

\* write_block: the block file is created or overwritten
StoreWrite(x) ==
    /\ local_store.h[x].pc = "write"
    /\ local_store' =
           [local_store EXCEPT
               !.blocks = (local_store.h[x].block_id :> local_store.h[x].block_data) @@ @,
               !.h[x].pc = "count"]
    /\ StoreFrame

\* the two counters are raised
StoreCount(x) ==
    /\ local_store.h[x].pc = "count"
    /\ local_store' =
           [local_store EXCEPT
               !.bloques_almacenados = @ + 1,
               !.bytes_usados = @ + local_store.h[x].block_size,
               !.h[x].pc = "done", !.h[x].ok = TRUE]
    /\ StoreFrame

\* delete_block up to the stat of the block file
DeleteStat(x, block_id) ==
    /\ HandlerFree(x)
    /\ local_store' =
           [local_store EXCEPT
               !.ops = @ - 1,
               !.h[x] = [pc |-> IF block_id \in DOMAIN local_store.blocks
                                THEN "unlink" ELSE "done",
                         op |-> "delete", block_id |-> block_id, block_data |-> <<>>,
                         block_size |-> IF block_id \in DOMAIN local_store.blocks
                                        THEN Len(local_store.blocks[block_id]) ELSE 0,
                         ok |-> FALSE]]
    /\ StoreFrame

\* BlockManager.delete_block and the counters: nothing is counted when the
\* file is gone by now
DeleteUnlink(x) ==
    /\ local_store.h[x].pc = "unlink"
    /\ LET block_id == local_store.h[x].block_id
       IN  IF block_id \in DOMAIN local_store.blocks
           THEN local_store' =
                   [local_store EXCEPT
                       !.blocks = [b \in (DOMAIN @) \ {block_id} |-> @[b]],
                       !.bloques_almacenados = @ - 1,
                       !.bytes_usados = @ - local_store.h[x].block_size,
                       !.h[x].pc = "done", !.h[x].ok = TRUE]
           ELSE local_store' = [local_store EXCEPT !.h[x].pc = "done"]
    /\ StoreFrame

----------------------------------------------------------------------------
(* A listening endpoint and its requester: network.py, node.py, file_operations.py *)

\* the requests the harness may still make
MaxNetOps == 2

\* the node whose endpoint serves the requests: the last configured one
NetNode == NumNodes

\* no message: None
NoMsg == [type |-> "none", error |-> NoneStr, data |-> <<>>, success |-> FALSE]

\* NetworkMessage(type, ...) with nothing in its data
Msg(type) == [type |-> type, error |-> NoneStr, data |-> <<>>, success |-> TRUE]

\* NetworkMessage(ERROR, {"error": text}, node_id)
ErrorMsg(text) == [Msg("error") EXCEPT !.error = text]

\* the handlers Node._register_network_handlers registers
NodeHandlers == {"ping", "get_status", "upload_block", "download_block", "delete_block"}

\* the message types the requests are drawn from; no node registers a
\* handler for file_upload
RequestTypes == NodeHandlers \cup {"file_upload"}

\* str(e) of the AttributeError raised by message.data.get on a data of None
NoGetText == "'NoneType' object has no attribute 'get'"

\* the block payloads of the requests
NetDatas == {<<7>>, <<7, 8>>}

\* no request made
NoRequest == [type |-> "none", payload |-> "dict", block_id |-> 0, data |-> <<>>, hash |-> NoHash]

HandlerReturned(reply, ns) == [raised |-> FALSE, text |-> NoneStr, reply |-> reply, ns |-> ns]

HandlerRaised(text, ns) == [raised |-> TRUE, text |-> text, reply |-> NoMsg, ns |-> ns]

\* the handler the node registered for the type of the message, applied to it:
\* the block handlers read message.data.get(...) before their try, which
\* raises when data is not an object
registered_handler(message, ns) ==
    IF message.type = "ping" THEN HandlerReturned(Msg("pong"), ns)
    ELSE IF message.type = "get_status" THEN HandlerReturned(Msg("status_response"), ns)
    ELSE IF message.payload # "dict" THEN HandlerRaised(NoGetText, ns)
    ELSE IF message.type = "upload_block"
    THEN LET r == handle_upload_block(ns, message.block_id, message.data, message.hash)
         IN  HandlerReturned(Msg(r.type), r.ns)
    ELSE IF message.type = "download_block"
    THEN LET r == handle_download_block(ns, message.block_id)
         IN  HandlerReturned([Msg(r.type) EXCEPT !.data = r.data], ns)
    ELSE LET r == handle_delete_block(ns, message.block_id)
         IN  HandlerReturned([Msg(r.type) EXCEPT !.success = r.success], r.ns)

\* variant: a fault of the handler is not caught and no response is made
process_message_uncaught(handlers, message, ns) ==
    IF message.type \in handlers
    THEN LET h == registered_handler(message, ns)
         IN  [reply |-> h.reply, ns |-> h.ns]
    ELSE IF message.type = "ping" THEN [reply |-> Msg("pong"), ns |-> ns]
    ELSE IF message.type = "get_status" THEN [reply |-> Msg("status_response"), ns |-> ns]
    ELSE [reply |-> NoMsg, ns |-> ns]

\* _process_message: the registered handler's response, an error message with
\* the text of the fault it raised, or the default for an unhandled type
process_message(handlers, message, ns) ==
    IF message.type \in handlers
    THEN LET h == registered_handler(message, ns)
         IN  IF h.raised THEN [reply |-> ErrorMsg(h.text), ns |-> h.ns]
             ELSE [reply |-> h.reply, ns |-> h.ns]
    ELSE IF message.type = "ping" THEN [reply |-> Msg("pong"), ns |-> ns]
    ELSE IF message.type = "get_status" THEN [reply |-> Msg("status_response"), ns |-> ns]
    ELSE [reply |-> NoMsg, ns |-> ns]

\* `response and response.type != NetworkMessage.ERROR`
Succeeded(response) == response # NoMsg /\ response.type # "error"

\* _retrieve_block_from_node on the response: the payload, or None
Retrieved(response) == IF Succeeded(response) THEN SomeList(FromHex(response.data)) ELSE NoneList

\* ping_node on the response
Ponged(response) == response # NoMsg /\ response.type = "pong"

NoNet ==
    [pc |-> "idle", ops |-> 0, handlers |-> {}, message |-> NoRequest, raised |-> FALSE,
     text |-> NoneStr, response |-> NoMsg, received |-> NoMsg, ok |-> FALSE, got |-> NoneList,
     read |-> 0, sent |-> 0, closed |-> FALSE,
     connect |-> "ok", send |-> "ok", receive |-> "ok",
     attempts |-> 0, fault |-> FALSE, client_closed |-> FALSE,
     bytes_usados |-> 0, bloques_almacenados |-> 0, stored_before |-> EmptyNode]

NetFrame ==
    UNCHANGED <<metaVars, fsVars, threads, pc, loc, histVars, ops,
                plan_in, plan_out, meta_call, hbVars, codec, local_store, proc, dc, fr>>

\* what connect, sendall and the reading of the response can end in
ConnectOutcomes == {"ok", "timeout", "refused"}

SendOutcomes == {"ok", "broken_pipe"}

ReceiveOutcomes == {"ok", "timeout", "closed", "not_json"}

\* variant: a connect that failed is tried a second time
send_message_to_node_retrying(connect, send, receive, response) ==
    [value |-> IF connect = "ok" /\ send = "ok" /\ receive = "ok" THEN response ELSE NoMsg,
     fault |-> FALSE, attempts |-> IF connect = "ok" THEN 1 ELSE 2, client_closed |-> TRUE]

\* send_message_to_node: one socket, one connect; socket.timeout and every
\* other Exception are caught and give None, _receive_message gives None for
\* a timeout or a closed stream, and the socket is closed in the finally clause
send_message_to_node(connect, send, receive, response) ==
    [value |-> IF connect = "ok" /\ send = "ok" /\ receive = "ok" THEN response ELSE NoMsg,
     fault |-> FALSE, attempts |-> 1, client_closed |-> TRUE]

\* send_message_to_node: a request is sent to the endpoint of a node, or to an
\* endpoint without handlers; when the connect or the send fails the call
\* returns at once
NetRequest(handlers, type, payload, block_id, block_data, block_hash, connect, send) ==
    /\ net.pc \in {"idle", "returned"} /\ net.ops > 0
    /\ LET call == [NoNet EXCEPT !.ops = net.ops - 1, !.handlers = handlers,
                                 !.message = [type |-> type, payload |-> payload, block_id |-> block_id,
                                              data |-> Hex(block_data), hash |-> block_hash],
                                 !.connect = connect, !.send = send,
                                 !.bytes_usados = net.bytes_usados,
                                 !.bloques_almacenados = net.bloques_almacenados]
           r == send_message_to_node(connect, send, "ok", NoMsg)
       IN  net' = IF connect = "ok" /\ send = "ok"
                  THEN [call EXCEPT !.pc = "sent"]
                  ELSE [call EXCEPT !.pc = "returned", !.received = r.value, !.got = Retrieved(r.value),
                                    !.attempts = r.attempts, !.fault = r.fault,
                                    !.client_closed = r.client_closed]
    /\ UNCHANGED nodes
    /\ NetFrame

\* _handle_client: one message is received and processed, the response, if
\* any, is sent, and the socket is closed in the finally clause
NetProcess ==
    /\ net.pc = "sent"
    /\ LET ns == [blocks |-> nodes[NetNode], bytes_usados |-> net.bytes_usados,
                  bloques_almacenados |-> net.bloques_almacenados]
           h == registered_handler(net.message, ns)
           r == process_message(net.handlers, net.message, ns)
           called == net.message.type \in net.handlers
       IN  /\ net' = [net EXCEPT !.pc = "processed", !.response = r.reply,
                                 !.raised = called /\ h.raised,
                                 !.text = IF called THEN h.text ELSE NoneStr,
                                 !.read = net.read + 1,
                                 !.sent = net.sent + (IF r.reply # NoMsg THEN 1 ELSE 0),
                                 !.closed = TRUE,
                                 !.bytes_usados = r.ns.bytes_usados,
                                 !.bloques_almacenados = r.ns.bloques_almacenados,
                                 !.stored_before = ns]
           /\ nodes' = [nodes EXCEPT ![NetNode] = r.ns.blocks]
    /\ NetFrame

\* the requester receives the response, or nothing (no response was made, or
\* it was lost or late), and returns
NetReturn(receive) ==
    /\ net.pc = "processed"
    /\ LET r == send_message_to_node(net.connect, net.send, receive, net.response)
           response == r.value
       IN  net' = [net EXCEPT !.pc = "returned", !.received = response,
                              !.ok = IF net.message.type = "ping" THEN Ponged(response)
                                     ELSE Succeeded(response),
                              !.got = Retrieved(response),
                              !.receive = receive, !.attempts = r.attempts, !.fault = r.fault,
                              !.client_closed = r.client_closed]
    /\ UNCHANGED nodes
    /\ NetFrame

----------------------------------------------------------------------------

(* Message framing: network.py *)

\* the longest JSON text of a message, in characters
MaxFrameText == 3

\* the messages that may still be written
MaxFrameOps == 2

\* the bytes of the length prefix
PrefixBytes == 4

\* the JSON texts of the messages: to_json escapes every non-ASCII character,
\* so a text is a sequence of ASCII code points
FrameTexts == {[k \in 1..n |-> 96 + k] : n \in 1..MaxFrameText}

\* str.encode('utf-8') of an ASCII text: one byte per character
encode_utf8(text) == [k \in 1..Len(text) |-> text[k] % 256]

\* bytes.decode('utf-8') of bytes below 128
decode_utf8(bytes) == [k \in 1..Len(bytes) |-> bytes[k]]

\* int.to_bytes(4, byteorder='big')
to_bytes4(n) == <<(n \div (256 * 256 * 256)) % 256, (n \div (256 * 256)) % 256, (n \div 256) % 256, n % 256>>

\* int.from_bytes(bytes, byteorder='big'), of as many bytes as are given
RECURSIVE from_bytes(_)
from_bytes(bytes) ==
    IF bytes = <<>> THEN 0
    ELSE 256 * from_bytes(SubSeq(bytes, 1, Len(bytes) - 1)) + bytes[Len(bytes)]

\* _send_message: the length of the encoded text in 4 bytes, then the text
frame_of(text) == to_bytes4(Len(encode_utf8(text))) \o encode_utf8(text)

\* sock.recv(4): at least one byte and at most four of those the stream holds
FirstRead(wire) == 1..Min(PrefixBytes, Len(wire))

NoFrame ==
    [pc |-> "idle", ops |-> 0, text |-> <<>>, written |-> 0, wire |-> <<>>, length_data |-> <<>>,
     message_length |-> 0, message_data |-> <<>>, result |-> NoneList]

FrameVarsFrame ==
    UNCHANGED <<metaVars, fsVars, nodes, threads, pc, loc, histVars, ops,
                plan_in, plan_out, meta_call, hbVars, codec, local_store, proc, dc, net>>

\* _send_message writes the frame of a message; the peer may stop after any
\* number of its bytes and close
FrameSend(text, written) ==
    /\ fr.pc \in {"idle", "returned"} /\ fr.ops > 0
    /\ written \in 0..Len(frame_of(text))
    /\ fr' = [NoFrame EXCEPT !.pc = "length", !.ops = fr.ops - 1, !.text = text,
                             !.written = written, !.wire = Take(frame_of(text), written)]
    /\ FrameVarsFrame

\* _receive_message: length_data = sock.recv(4); nothing read means None
FrameRecvLength(k) ==
    /\ fr.pc = "length"
    /\ IF fr.wire = <<>>
       THEN /\ k = 0
            /\ fr' = [fr EXCEPT !.pc = "returned", !.result = NoneList]
       ELSE /\ k \in FirstRead(fr.wire)
            /\ fr' = [fr EXCEPT !.pc = "body", !.length_data = SubSeq(fr.wire, 1, k),
                                !.message_length = from_bytes(SubSeq(fr.wire, 1, k)),
                                !.wire = SubSeq(fr.wire, k + 1, Len(fr.wire))]
    /\ FrameVarsFrame

\* the body loop: chunk = sock.recv(min(4096, missing)); an empty chunk means None
FrameRecvBody(k) ==
    /\ fr.pc = "body"
    /\ Len(fr.message_data) < fr.message_length
    /\ IF fr.wire = <<>>
       THEN /\ k = 0
            /\ fr' = [fr EXCEPT !.pc = "returned", !.result = NoneList]
       ELSE /\ k \in 1..Min(fr.message_length - Len(fr.message_data), Len(fr.wire))
            /\ fr' = [fr EXCEPT !.message_data = @ \o SubSeq(fr.wire, 1, k),
                                !.wire = SubSeq(fr.wire, k + 1, Len(fr.wire))]
    /\ FrameVarsFrame

\* the loop ends: return message_data.decode('utf-8')
FrameReturn ==
    /\ fr.pc = "body"
    /\ Len(fr.message_data) >= fr.message_length
    /\ fr' = [fr EXCEPT !.pc = "returned", !.result = SomeList(decode_utf8(fr.message_data))]
    /\ FrameVarsFrame

----------------------------------------------------------------------------

(* Heartbeat and node liveness: coordinator.py, node.py *)

CoordinatorId == 1

\* the configured nodes of the start-up runs, the coordinator among them
StartNumNodes == 2

\* the clock at start-up, far from the epoch a fresh NodeStatus carries
StartTime == 3 * TimeoutSeconds + 1

Workers == (DOMAIN node_status) \ {CoordinatorId}

\* _initialize_nodes: every configured node, only the coordinator active
initialize_nodes(ids, now) ==
    [n \in ids |->
        IF n = CoordinatorId THEN [activo |-> TRUE, ultimo_heartbeat |-> now]
        ELSE [activo |-> FALSE, ultimo_heartbeat |-> 0]]

\* _discover_nodes: a node that answers the ping is active as of now
discover_nodes(ns, answers, now) ==
    [n \in DOMAIN ns |->
        IF n = CoordinatorId THEN ns[n]
        ELSE IF answers[n] THEN [activo |-> TRUE, ultimo_heartbeat |-> now]
        ELSE [ns[n] EXCEPT !.activo = FALSE]]

\* variant: the coordinator is listed with the other active nodes
get_active_nodes_with_coordinator(ns) == SortedSeq({n \in DOMAIN ns : ns[n].activo})

\* get_active_nodes: the active nodes, the coordinator left out
get_active_nodes(ns) == SortedSeq({n \in DOMAIN ns : ns[n].activo /\ n # CoordinatorId})

HcSleeping == [pc |-> "sleep", current_time |-> 0, rest |-> <<>>, node |-> None, ping_ok |-> FALSE]

\* variant: the threshold is thirty timeouts
IsStale_thirty_timeouts(status, current_time) ==
    (current_time - status.ultimo_heartbeat) > (TimeoutSeconds * 30)

\* time_since_heartbeat > timeout * 3
IsStale(status, current_time) ==
    (current_time - status.ultimo_heartbeat) > (TimeoutSeconds * 3)

\* time passes
Tick ==
    /\ clock < MaxTime
    /\ clock' = clock + 1
    /\ UNCHANGED <<node_status, up, hc, hp, marked>>

\* a worker node stops, or loses its network
NodeStops(n) ==
    /\ up[n]
    /\ up' = [up EXCEPT ![n] = FALSE]
    /\ UNCHANGED <<node_status, clock, hc, hp, marked>>

\* a worker node starts again
NodeStarts(n) ==
    /\ ~up[n]
    /\ up' = [up EXCEPT ![n] = TRUE]
    /\ UNCHANGED <<node_status, clock, hc, hp, marked>>

\* _heartbeat_loop wakes up: _check_nodes_health reads the time
HealthBegin ==
    /\ hc.pc = "sleep"
    /\ hc' = [HcSleeping EXCEPT !.pc = "check", !.current_time = clock,
                                !.rest = SortedSeq(DOMAIN node_status)]
    /\ UNCHANGED <<node_status, clock, up, hp, marked>>

\* the next node of the loop: a stale active node gets the confirmation ping
HealthNode(answered) ==
    /\ hc.pc = "check" /\ hc.rest # <<>>
    /\ LET n == Head(hc.rest)
       IN  IF n # CoordinatorId /\ node_status[n].activo /\ IsStale(node_status[n], hc.current_time)
           THEN hc' = [hc EXCEPT !.pc = "mark", !.node = n, !.ping_ok = up[n] /\ answered]
           ELSE hc' = [hc EXCEPT !.rest = Tail(@)]
    /\ UNCHANGED <<node_status, clock, up, hp, marked>>

\* the outcome of the confirmation ping is written
HealthMark ==
    /\ hc.pc = "mark"
    /\ node_status' = [node_status EXCEPT ![hc.node] =
                          IF hc.ping_ok THEN [@ EXCEPT !.ultimo_heartbeat = hc.current_time]
                          ELSE [@ EXCEPT !.activo = FALSE]]
    /\ marked' = IF hc.ping_ok THEN marked ELSE marked \cup {hc.node}
    /\ hc' = [hc EXCEPT !.pc = "check", !.rest = Tail(@), !.node = None, !.ping_ok = FALSE]
    /\ UNCHANGED <<clock, up, hp>>

\* every node visited: time.sleep(interval)
HealthSleep ==
    /\ hc.pc = "check" /\ hc.rest = <<>>
    /\ hc' = HcSleeping
    /\ UNCHANGED <<node_status, clock, up, hp, marked>>

\* Node._send_heartbeat reaches the coordinator; _handle_ping: activo = True
HandlePing(n) ==
    /\ up[n] /\ hp[n] = "none"
    /\ n \in DOMAIN node_status
    /\ node_status' = [node_status EXCEPT ![n].activo = TRUE]
    /\ hp' = [hp EXCEPT ![n] = "stamp"]
    /\ UNCHANGED <<clock, up, hc, marked>>

\* _handle_ping: ultimo_heartbeat = time.time(), and the PONG is returned
HandlePingStamp(n) ==
    /\ hp[n] = "stamp"
    /\ node_status' = [node_status EXCEPT ![n].ultimo_heartbeat = clock]
    /\ hp' = [hp EXCEPT ![n] = "none"]
    /\ UNCHANGED <<clock, up, hc, marked>>

\* _discover_nodes is not running
NoDiscovery == [pc |-> "done", rest |-> <<>>, node |-> None, ping_ok |-> FALSE, pings |-> <<>>]

\* what the steps of _discover_nodes leave alone
DiscoverFrame ==
    UNCHANGED <<metaVars, fsVars, nodes, threads, pc, loc, histVars, ops,
                plan_in, plan_out, meta_call, codec, local_store, proc, net, fr,
                clock, up, hc, hp, marked>>

\* _discover_nodes, the next node of the loop: the coordinator is skipped,
\* any other node is pinged
DiscoverNode(answered) ==
    /\ dc.pc = "next" /\ dc.rest # <<>>
    /\ LET n == Head(dc.rest)
           ok == up[n] /\ answered
       IN  IF n = CoordinatorId
           THEN dc' = [dc EXCEPT !.rest = Tail(@)]
           ELSE dc' = [dc EXCEPT !.pc = "write", !.node = n, !.ping_ok = ok,
                                 !.pings = Append(@, <<n, ok>>)]
    /\ UNCHANGED node_status
    /\ DiscoverFrame

\* the outcome of the ping is written: activo = True, or activo = False
DiscoverWrite ==
    /\ dc.pc = "write"
    /\ node_status' = [node_status EXCEPT ![dc.node].activo = dc.ping_ok]
    /\ dc' = IF dc.ping_ok THEN [dc EXCEPT !.pc = "stamp"]
             ELSE [dc EXCEPT !.pc = "next", !.rest = Tail(@), !.node = None]
    /\ DiscoverFrame

\* after activo = True: ultimo_heartbeat = time.time()
DiscoverStamp ==
    /\ dc.pc = "stamp"
    /\ node_status' = [node_status EXCEPT ![dc.node].ultimo_heartbeat = clock]
    /\ dc' = [dc EXCEPT !.pc = "next", !.rest = Tail(@), !.node = None, !.ping_ok = FALSE]
    /\ DiscoverFrame

\* every node visited: _discover_nodes returns and start goes on
DiscoverReturn ==
    /\ dc.pc = "next" /\ dc.rest = <<>>
    /\ dc' = [dc EXCEPT !.pc = "done"]
    /\ UNCHANGED node_status
    /\ DiscoverFrame

\* what the heartbeat actions leave alone
HbFrame ==
    UNCHANGED <<metaVars, fsVars, nodes, threads, pc, loc, histVars, ops,
                plan_in, plan_out, meta_call, unitVars>>

----------------------------------------------------------------------------
(* Faults of the environment *)

\* the bytes of a block file with the first one changed
Corrupted(block_data) == <<(block_data[1] + 1) % 256>> \o Tail(block_data)

\* the file of block b in the blocks directory of node n is overwritten
CorruptBlock(n, b) ==
    /\ ops > 0
    /\ b \in DOMAIN nodes[n]
    /\ ops' = ops - 1
    /\ nodes' = [nodes EXCEPT ![n] = [@ EXCEPT ![b] = Corrupted(@)]]
    /\ UNCHANGED <<metaVars, fsVars, threads, pc, loc, histVars, auxVars>>

----------------------------------------------------------------------------
(* Specifications *)

\* no operation started, no harness call made
InitClients ==
    /\ pc = [t \in Threads |-> "idle"]
    /\ loc = [t \in Threads |-> LocInit]
    /\ acks = [t \in Threads |-> {}]
    /\ rival_ok = [t \in Threads |-> FALSE]
    /\ slot_freed = [t \in Threads |-> FALSE]
    /\ before = [t \in Threads |-> NoSnapshot]
    /\ plan_in = NoPlanCall
    /\ plan_out = NoPlan
    /\ meta_call = NoCall

\* the coordinator as constructed, its heartbeat thread not started
InitCoordinator ==
    /\ clock = StartTime
    /\ node_status = initialize_nodes(DOMAIN nodes, clock)
    /\ up = [n \in DOMAIN nodes |-> FALSE]
    /\ hc = HcSleeping
    /\ hp = [n \in DOMAIN nodes |-> "none"]
    /\ marked = {}

\* the files hold what the manager saved last; no harness call made
InitUnits ==
    /\ disk = save_to_disk(block_table, file_index)
    /\ codec = NoCodec
    /\ local_store = NoStore
    /\ proc = NoProc
    /\ dc = NoDiscovery
    /\ net = NoNet
    /\ fr = NoFrame

InitCommon ==
    /\ file_index = <<>>
    /\ outputs = <<>>
    /\ InitClients
    /\ InitCoordinator

\* the client's files: two, one and no block; four blocks, the last one short
Content(p) ==
    IF p = "f" THEN <<10, 20, 30>>
    ELSE IF p = "g" THEN <<200>>
    ELSE IF p = "h" THEN <<1, 2, 3, 4, 5, 6, 255>>
    ELSE IF p = "k" THEN <<40, 50, 60>>
    ELSE <<>>

\* two client threads over a small store
Init ==
    /\ total_blocks = TotalBlocks
    /\ block_table = initialize_empty_table(total_blocks)
    /\ nodes = [n \in 1..NumNodes |-> <<>>]
    /\ local_files = [p \in {"f", "g"} |-> Content(p)]
    /\ threads = Threads
    /\ ops = MaxOps
    /\ InitCommon
    /\ InitUnits

Next ==
    \/ \E t \in threads, path \in Paths, active_nodes \in ActiveLists : UploadBegin(t, path, active_nodes)
    \/ \E t \in threads : UploadGetFree(t)
    \/ \E t \in threads, answered \in BOOLEAN : UploadSendPrimary(t, answered)
    \/ \E t \in threads, answered \in BOOLEAN : UploadSendReplica(t, answered)
    \/ \E t \in threads : UploadAllocate(t)
    \/ \E t \in threads : UploadRegister(t)
    \/ \E t \in threads, answered \in BOOLEAN : RollbackPrimary(t, answered)
    \/ \E t \in threads, answered \in BOOLEAN : RollbackReplica(t, answered)
    \/ \E t \in threads : RollbackFree(t)
    \/ \E t \in threads, file_name \in Paths, active_nodes \in ActiveLists : DownloadBegin(t, file_name, active_nodes)
    \/ \E t \in threads : DownloadEntry(t)
    \/ \E t \in threads, answered \in BOOLEAN : DownloadPrimary(t, answered)
    \/ \E t \in threads, answered \in BOOLEAN : DownloadReplica(t, answered)
    \/ \E t \in threads, file_name \in Paths, active_nodes \in ActiveLists : DeleteBegin(t, file_name, active_nodes)
    \/ \E t \in threads : DeleteEntry(t)
    \/ \E t \in threads, answered \in BOOLEAN : DeletePrimary(t, answered)
    \/ \E t \in threads, answered \in BOOLEAN : DeleteReplica(t, answered)
    \/ \E t \in threads : DeleteFree(t)
    \/ \E t \in threads : DeleteFile(t)

Spec == Init /\ [][Next]_vars

\* one client thread over a larger store, three nodes and more kinds of file
InitSeq ==
    /\ total_blocks = SeqTotalBlocks
    /\ block_table = initialize_empty_table(total_blocks)
    /\ nodes = [n \in 1..SeqNumNodes |-> <<>>]
    /\ local_files = [p \in {"f", "g", "h", "e"} |-> Content(p)]
    /\ threads = {1}
    /\ ops = MaxSeqOps
    /\ InitCommon
    /\ InitUnits

NextSeq ==
    \/ Next
    \/ \E t \in threads : ListFiles(t)
    \/ \E t \in threads, file_name \in Paths : GetFileInfo(t, file_name)
    \/ \E t \in threads : GetSystemStatistics(t)
    \/ \E t \in threads, num_blocks \in 0..(total_blocks + 1), active_nodes \in ActiveLists :
           AssignBlocks(t, num_blocks, active_nodes)

SpecSeq == InitSeq /\ [][NextSeq]_vars

\* the store as the upload of f over the active nodes <<1, 2>> leaves it
StoredTable ==
    [b \in 0..(TotalBlocks - 1) |->
        LET a == Assignment(<<0, 1>>, <<1, 2>>, b)
            blk == split_file_to_memory(Content("f"))[b + 1]
        IN  AllocatedEntry(b, "f", b, a.primary_node, a.replica_node, Len(blk.data), blk.hash)]

StoredIndex ==
    register_file(<<>>, "f", Len(Content("f")), <<0, 1>>, calculate_file_hash(Content("f"))).fi

StoredNodes ==
    [n \in 1..NumNodes |-> [b \in 0..(TotalBlocks - 1) |-> split_file_to_memory(Content("f"))[b + 1].data]]

\* two client threads over a store that holds f, whose block files can be
\* overwritten
InitFault ==
    /\ total_blocks = TotalBlocks
    /\ block_table = StoredTable
    /\ nodes = StoredNodes
    /\ local_files = [p \in {"f", "k"} |-> Content(p)]
    /\ threads = Threads
    /\ ops = MaxFaultOps
    /\ outputs = <<>>
    /\ file_index = StoredIndex
    /\ InitClients
    /\ InitCoordinator
    /\ InitUnits

NextFault ==
    \/ Next
    \/ \E n \in DOMAIN nodes, b \in DOMAIN block_table : CorruptBlock(n, b)

SpecFault == InitFault /\ [][NextFault]_vars

\* the coordinator started over two worker nodes: _discover_nodes has pinged
\* them, the heartbeat thread sleeps
InitHB ==
    /\ total_blocks = TotalBlocks
    /\ block_table = initialize_empty_table(total_blocks)
    /\ nodes = [n \in 1..HbNumNodes |-> <<>>]
    /\ local_files = <<>>
    /\ threads = {}
    /\ ops = 0
    /\ file_index = <<>>
    /\ outputs = <<>>
    /\ InitClients
    /\ clock = StartTime
    /\ up \in [DOMAIN nodes -> BOOLEAN]
    /\ up[CoordinatorId]
    /\ node_status = discover_nodes(initialize_nodes(DOMAIN nodes, clock), up, clock)
    /\ hc = HcSleeping
    /\ hp = [n \in DOMAIN nodes |-> "none"]
    /\ marked = {}
    /\ InitUnits

NextHB ==
    \/ Tick /\ HbFrame
    \/ \E n \in Workers : NodeStops(n) /\ HbFrame
    \/ \E n \in Workers : NodeStarts(n) /\ HbFrame
    \/ HealthBegin /\ HbFrame
    \/ \E answered \in BOOLEAN : HealthNode(answered) /\ HbFrame
    \/ HealthMark /\ HbFrame
    \/ HealthSleep /\ HbFrame
    \/ \E n \in Workers : HandlePing(n) /\ HbFrame
    \/ \E n \in Workers : HandlePingStamp(n) /\ HbFrame

SpecHB == InitHB /\ [][NextHB]_vars

\* a worker that is up keeps sending its heartbeat, and the coordinator's
\* handler threads run to their end
FairHB ==
    \A n \in 2..HbNumNodes :
        /\ WF_vars(HandlePing(n) /\ HbFrame)
        /\ WF_vars(HandlePingStamp(n) /\ HbFrame)

LiveSpecHB == SpecHB /\ FairHB

\* Coordinator.start has started the heartbeat thread and enters
\* _discover_nodes; the workers heartbeat on their own
InitStart ==
    /\ total_blocks = TotalBlocks
    /\ block_table = initialize_empty_table(total_blocks)
    /\ nodes = [n \in 1..StartNumNodes |-> <<>>]
    /\ local_files = <<>>
    /\ threads = {}
    /\ ops = 0
    /\ file_index = <<>>
    /\ outputs = <<>>
    /\ InitClients
    /\ clock = StartTime
    /\ up \in [DOMAIN nodes -> BOOLEAN]
    /\ up[CoordinatorId]
    /\ node_status = initialize_nodes(DOMAIN nodes, clock)
    /\ hc = HcSleeping
    /\ hp = [n \in DOMAIN nodes |-> "none"]
    /\ marked = {}
    /\ disk = save_to_disk(block_table, file_index)
    /\ codec = NoCodec
    /\ local_store = NoStore
    /\ proc = NoProc
    /\ dc = [NoDiscovery EXCEPT !.pc = "next", !.rest = SortedSeq(DOMAIN nodes)]
    /\ net = NoNet
    /\ fr = NoFrame

NextStart ==
    \/ NextHB
    \/ \E answered \in BOOLEAN : DiscoverNode(answered)
    \/ DiscoverWrite
    \/ DiscoverStamp
    \/ DiscoverReturn

SpecStart == InitStart /\ [][NextStart]_vars

\* requests of every type and payload sent to an endpoint, one after the other
InitNet ==
    /\ total_blocks = TotalBlocks
    /\ block_table = initialize_empty_table(total_blocks)
    /\ nodes = [n \in 1..NumNodes |-> <<>>]
    /\ local_files = <<>>
    /\ threads = {}
    /\ ops = 0
    /\ InitCommon
    /\ disk = save_to_disk(block_table, file_index)
    /\ codec = NoCodec
    /\ local_store = NoStore
    /\ proc = NoProc
    /\ dc = NoDiscovery
    /\ net = [NoNet EXCEPT !.ops = MaxNetOps]
    /\ fr = NoFrame

NextNet ==
    \/ \E handlers \in {NodeHandlers, {}}, type \in RequestTypes, payload \in {"dict", "null"},
          block_id \in StoreIds, block_data \in NetDatas, good \in BOOLEAN,
          connect \in ConnectOutcomes, send \in SendOutcomes :
           NetRequest(handlers, type, payload, block_id, block_data,
                      IF good THEN calculate_hash_bytes(block_data) ELSE NoHash, connect, send)
    \/ NetProcess
    \/ \E receive \in ReceiveOutcomes : NetReturn(receive)

SpecNet == InitNet /\ [][NextNet]_vars

\* messages written to a stream and read from it, one after the other
InitFrame ==
    /\ total_blocks = TotalBlocks
    /\ block_table = initialize_empty_table(total_blocks)
    /\ nodes = [n \in 1..NumNodes |-> <<>>]
    /\ local_files = <<>>
    /\ threads = {}
    /\ ops = 0
    /\ InitCommon
    /\ disk = save_to_disk(block_table, file_index)
    /\ codec = NoCodec
    /\ local_store = NoStore
    /\ proc = NoProc
    /\ dc = NoDiscovery
    /\ net = NoNet
    /\ fr = [NoFrame EXCEPT !.ops = MaxFrameOps]

NextFrame ==
    \/ \E text \in FrameTexts, written \in 0..(PrefixBytes + MaxFrameText) : FrameSend(text, written)
    \/ \E k \in 0..PrefixBytes : FrameRecvLength(k)
    \/ \E k \in 0..MaxFrameText : FrameRecvBody(k)
    \/ FrameReturn

SpecFrame == InitFrame /\ [][NextFrame]_vars

\* the planner on every drawn table, number of blocks and list of active nodes
InitPlan ==
    /\ total_blocks = SeqTotalBlocks
    /\ \E S \in SUBSET (0..(total_blocks - 1)) : block_table = OccupiedTable(total_blocks, S)
    /\ nodes = [n \in 1..MaxPlanNodes |-> <<>>]
    /\ local_files = <<>>
    /\ threads = {}
    /\ ops = 0
    /\ InitCommon
    /\ InitUnits

NextPlan ==
    \/ \E num_blocks \in 0..MaxPlanBlocks, active_nodes \in PlanLists : PlanUpload(num_blocks, active_nodes)
    \/ \E num_blocks \in 0..MaxPlanBlocks, active_nodes \in PlanLists : PlanCoordinator(num_blocks, active_nodes)

SpecPlan == InitPlan /\ [][NextPlan]_vars

\* allocate_block and free_block called in any order with drawn arguments
InitMeta ==
    /\ total_blocks = TotalBlocks
    /\ block_table = initialize_empty_table(total_blocks)
    /\ nodes = [n \in 1..NumNodes |-> <<>>]
    /\ local_files = <<>>
    /\ threads = {}
    /\ ops = 0
    /\ InitCommon
    /\ InitUnits

NextMeta ==
    \/ \E block_id \in MetaIds, file_name \in MetaFiles, block_index \in MetaParts, primary_node \in MetaNodes, replica_node \in MetaNodes, size_bytes \in MetaSizes : MetaAllocate(block_id, file_name, block_index, primary_node, replica_node, size_bytes)
    \/ \E block_id \in MetaIds : MetaFree(block_id)

SpecMeta == InitMeta /\ [][NextMeta]_vars

\* the codec on every drawn file content and block size
InitCodec ==
    /\ total_blocks = TotalBlocks
    /\ block_table = initialize_empty_table(total_blocks)
    /\ nodes = [n \in 1..NumNodes |-> <<>>]
    /\ local_files = <<>>
    /\ threads = {}
    /\ ops = 0
    /\ InitCommon
    /\ disk = save_to_disk(block_table, file_index)
    /\ local_store = NoStore
    /\ proc = NoProc
    /\ dc = NoDiscovery
    /\ net = NoNet
    /\ fr = NoFrame
    /\ \E content \in CodecContents, block_size_bytes \in 1..MaxCodecBlockSize :
          codec = [NoCodec EXCEPT !.content = content, !.block_size = block_size_bytes,
                                  !.phase = "file"]

NextCodec ==
    \/ CodecSplitToMemory
    \/ CodecWriteBlocks
    \/ CodecSplitToBlocks
    \/ \E verify \in BOOLEAN : CodecJoin(verify)

SpecCodec == InitCodec /\ [][NextCodec]_vars

\* a started node with an empty blocks directory, its handler threads idle
InitStore ==
    /\ total_blocks = TotalBlocks
    /\ block_table = initialize_empty_table(total_blocks)
    /\ nodes = [n \in 1..NumNodes |-> <<>>]
    /\ local_files = <<>>
    /\ threads = {}
    /\ ops = 0
    /\ InitCommon
    /\ disk = save_to_disk(block_table, file_index)
    /\ codec = NoCodec
    /\ local_store = [NoStore EXCEPT !.ops = MaxStoreOps]
    /\ proc = NoProc
    /\ dc = NoDiscovery
    /\ net = NoNet
    /\ fr = NoFrame

NextStore ==
    \/ \E x \in Handlers, block_id \in StoreIds, block_data \in StoreDatas : StoreCheck(x, block_id, block_data)
    \/ \E x \in Handlers : StoreWrite(x)
    \/ \E x \in Handlers : StoreCount(x)
    \/ \E x \in Handlers, block_id \in StoreIds : DeleteStat(x, block_id)
    \/ \E x \in Handlers : DeleteUnlink(x)

SpecStore == InitStore /\ [][NextStore]_vars

\* a metadata directory without files, and a manager about to be constructed
InitRestart ==
    /\ total_blocks = TotalBlocks
    /\ block_table = initialize_empty_table(total_blocks)
    /\ nodes = [n \in 1..NumNodes |-> <<>>]
    /\ local_files = <<>>
    /\ threads = {}
    /\ ops = 0
    /\ InitCommon
    /\ disk = save_to_disk(block_table, file_index)
    /\ codec = NoCodec
    /\ local_store = NoStore
    /\ proc = [NoProc EXCEPT !.pc = "stopped", !.calls = MaxRestartCalls]
    /\ dc = NoDiscovery
    /\ net = NoNet
    /\ fr = NoFrame

NextRestart ==
    \/ ProcStart
    \/ \E block_id \in 0..TotalBlocks : ProcAllocate(block_id)
    \/ \E block_id \in 0..TotalBlocks : ProcFree(block_id)
    \/ ProcRegister
    \/ ProcDelete
    \/ SaveOpenTable
    \/ SaveDumpTable
    \/ SaveOpenIndex
    \/ SaveDumpIndex
    \/ ProcStop

SpecRestart == InitRestart /\ [][NextRestart]_vars

----------------------------------------------------------------------------
(* Properties *)

\* slot b is occupied by the file `name`
OccupiedBy(bt, b, name) == bt[b].estado = "ocupado" /\ bt[b].archivo = name

SlotsOf(bt, name) == {b \in DOMAIN bt : OccupiedBy(bt, b, name)}

Returned(t, op) == pc[t] = "done" /\ loc[t].op = op

\* C1: when an upload returns after the send of a block to its primary or its
\* replica node failed, no block slot is occupied by that file and the file
\* name is not in the file index.
C1_RollbackComplete ==
    \A t \in threads :
        (Returned(t, "upload") /\ loc[t].cause = "send") =>
            /\ SlotsOf(block_table, FileName(loc[t].path)) = {}
            /\ ~file_exists(file_index, FileName(loc[t].path))

\* an upload returned after a failed send of a later block: both nodes had
\* acknowledged its first block, whose slot was allocated and rolled back
C1_Witness ==
    \E t \in threads :
        /\ Returned(t, "upload") /\ loc[t].cause = "send"
        /\ Cardinality({a \in acks[t] : a[1] = loc[t].free_blocks[1]}) = 2

\* C2: whenever an upload returns a failure, whatever the cause, no slot is
\* left occupied by that upload and no record created by it. The slots of the
\* file's name are that upload's when the name is not registered and no other
\* thread uploads the same name.
C2_AllOrNothing ==
    \A t \in threads :
        (/\ Returned(t, "upload") /\ loc[t].result = "fail"
         /\ ~file_exists(file_index, FileName(loc[t].path))
         /\ \A u \in threads \ {t} : ~(loc[u].op = "upload" /\ loc[u].path = loc[t].path))
        => SlotsOf(block_table, FileName(loc[t].path)) = {}

\* C3: a file name becomes visible to file_exists only in the register step of
\* an upload of that name to which both nodes of every block of the file have
\* acknowledged the store of that block.
C3_VisibleAfterStored ==
    [][\A name \in DOMAIN file_index' :
          ~file_exists(file_index, name) =>
              \E t \in threads :
                  /\ pc[t] = "up_register" /\ FileName(loc[t].path) = name
                  /\ Len(loc[t].free_blocks) = Len(BlocksOf(loc[t].path))
                  /\ BlockIdsOf(file_index'[name]) = loc[t].free_blocks
                  /\ \A k \in 1..Len(loc[t].free_blocks) :
                         LET a == Assignment(loc[t].free_blocks, loc[t].active, k - 1)
                         IN  /\ <<a.block_id, a.primary_node>> \in acks[t]
                             /\ <<a.block_id, a.replica_node>> \in acks[t]]_vars

\* a file of two blocks is registered by the upload that has just returned
C3_Witness ==
    \E t \in threads :
        /\ Returned(t, "upload") /\ loc[t].result = "ok"
        /\ Len(loc[t].free_blocks) = 2
        /\ Cardinality(acks[t]) = 4
        /\ file_exists(file_index, FileName(loc[t].path))

\* C4: a download that directly follows the successful upload of the same file,
\* these being the only two operations, and in which no retrieval failed,
\* succeeds and writes the uploaded content, whose hash is the recorded one.
C4_RoundTrip ==
    \A t \in threads :
        (/\ Returned(t, "download") /\ ops = MaxSeqOps - 2
         /\ loc[t].cause \notin {"not_found", "retrieve"})
        => /\ loc[t].result = "ok"
           /\ OutputPath \in DOMAIN outputs
           /\ outputs[OutputPath] = local_files[loc[t].path]
           /\ calculate_file_hash(outputs[OutputPath]) = file_index[loc[t].path].hash_completo

\* C5: when no operation is in progress, every id in a registered file's block
\* list refers to a slot occupied by that file whose part is the id's position.
C5_FileRecord ==
    (\A t \in threads : pc[t] \in {"idle", "done"}) =>
        \A name \in DOMAIN file_index :
            \A k \in 1..Len(BlockIdsOf(file_index[name])) :
                LET b == BlockIdsOf(file_index[name])[k]
                IN  /\ OccupiedBy(block_table, b, name)
                    /\ block_table[b].parte = k - 1

\* C6, as stated: an upload does not return success when an upload that held
\* a free-block list sharing an id with its own, while both were in progress,
\* has returned success.
C6_AtMostOne ==
    \A t \in threads :
        (Returned(t, "upload") /\ loc[t].result = "ok") => ~rival_ok[t]

\* C6, amended: of two uploads in progress at once whose free-block lists share
\* an id, both return success only if a delete freed a slot of one of the two
\* lists while the upload holding that list was in progress.
C6_AtMostOneUnlessFreed ==
    \A t \in threads :
        (Returned(t, "upload") /\ loc[t].result = "ok" /\ rival_ok[t]) => slot_freed[t]

\* the rival returned success and this upload, refused by allocate_block,
\* returned a failure
C6_Witness ==
    \E t \in threads :
        /\ Returned(t, "upload") /\ loc[t].result = "fail" /\ loc[t].cause = "exception"
        /\ rival_ok[t] /\ ~slot_freed[t]

\* C7: allocate_block on an occupied slot raises and leaves the whole block
\* table as it was; free_block on an existing slot, free or occupied, leaves
\* that slot free with every other field unset and the other slots as they were.
C7_AllocateFree ==
    [][/\ (meta_call'.op = "allocate" /\ meta_call'.occupied) =>
            (meta_call'.raised /\ block_table' = block_table)
       /\ (meta_call'.op = "free" /\ meta_call'.block_id \in DOMAIN block_table) =>
            /\ ~meta_call'.raised
            /\ block_table'[meta_call'.block_id] = FreeEntry(meta_call'.block_id)
            /\ \A b \in DOMAIN block_table \ {meta_call'.block_id} :
                   block_table'[b] = block_table[b]]_vars

\* allocate_block was refused on an occupied slot while the other slot is
\* occupied too
C7_Witness ==
    /\ meta_call.op = "allocate" /\ meta_call.occupied /\ meta_call.raised
    /\ \A b \in DOMAIN block_table : block_table[b].estado = "ocupado"

\* C8: for every list of two or more active node ids and every number of
\* blocks, no assignment of the plan has the same node as primary and replica.
C8_PrimaryNotReplica ==
    (Len(plan_in.active) >= 2 /\ ~plan_out.raised) =>
        \A k \in DOMAIN plan_out.value :
            plan_out.value[k].primary_node # plan_out.value[k].replica_node

\* the coordinator planned three or more blocks over two active nodes
C8_Witness ==
    /\ plan_in.caller = "coordinator" /\ ~plan_out.raised
    /\ Len(plan_in.active) = 2 /\ Len(plan_out.value) >= 3

\* the plan of every list of two or more node ids and every batch: position i
\* gets primary active[i mod N] and replica active[(i+1) mod N]
PlanIsRoundRobin ==
    \A active_nodes \in {s \in PlanLists : Len(s) >= 2} :
        \A num_blocks \in 0..MaxPlanBlocks :
            LET free_blocks == [k \in 1..num_blocks |-> k - 1]
                n == Len(active_nodes)
            IN  \A i \in 0..(num_blocks - 1) :
                    Assignment(free_blocks, active_nodes, i) =
                        [block_id |-> free_blocks[i + 1],
                         primary_node |-> At(active_nodes, i % n),
                         replica_node |-> At(active_nodes, (i + 1) % n)]

\* the slot written for position k of the upload of thread t
PlannedEntry(t, k) ==
    LET e == block_table[loc[t].free_blocks[k + 1]]
        n == Len(loc[t].active)
    IN  /\ OccupiedBy(block_table, loc[t].free_blocks[k + 1], FileName(loc[t].path))
        /\ e.parte = k
        /\ e.nodo_primario = At(loc[t].active, k % n)
        /\ e.nodo_replica = At(loc[t].active, (k + 1) % n)

\* C9: the plan is the round-robin function of the position; every slot an
\* upload has written carries the pair of its position; an upload that
\* succeeded has as many slots as the file has blocks and a record with that
\* number, and with two active nodes a file of four blocks gets the pairs
\* (a,b),(b,a),(a,b),(b,a).
C9_RoundRobin ==
    /\ PlanIsRoundRobin
    /\ \A t \in threads :
           pc[t] \in {"up_send_primary", "up_send_replica", "up_allocate", "up_register"} =>
               \A k \in 0..(loc[t].i - 1) : PlannedEntry(t, k)
    /\ \A t \in threads :
           (Returned(t, "upload") /\ loc[t].result = "ok") =>
               LET name == FileName(loc[t].path)
                   ids == loc[t].free_blocks
               IN  /\ file_index[name].num_bloques = Len(BlocksOf(loc[t].path))
                   /\ Cardinality(SlotsOf(block_table, name)) = Len(BlocksOf(loc[t].path))
                   /\ Len(ids) = 4 =>
                          \E a, b \in DOMAIN nodes :
                              /\ a # b
                              /\ \A k \in 1..4 :
                                     /\ block_table[ids[k]].nodo_primario = IF k % 2 = 1 THEN a ELSE b
                                     /\ block_table[ids[k]].nodo_replica = IF k % 2 = 1 THEN b ELSE a

\* the file of four blocks was uploaded over two active nodes
C9_Witness ==
    \E t \in threads :
        /\ Returned(t, "upload") /\ loc[t].result = "ok"
        /\ Len(loc[t].free_blocks) = 4
        /\ file_index[FileName(loc[t].path)].num_bloques = 4

\* C10: an upload or a coordinator assignment started with fewer than two
\* active nodes returns a failure in that very step, which changes no slot, no
\* record and no node.
C10_NeedsTwoNodes ==
    [][\A t \in threads :
          (ops' # ops /\ loc'[t].op \in {"upload", "assign"}) =>
              \/ Len(loc'[t].active) >= 2
              \/ /\ pc'[t] = "done" /\ loc'[t].result = "fail"
                 /\ block_table' = block_table
                 /\ file_index' = file_index
                 /\ nodes' = nodes]_vars

\* an upload of an existing, unregistered file was refused for lack of nodes
C10_Witness ==
    \E t \in threads : Returned(t, "upload") /\ loc[t].cause = "nodes"

\* the delete of thread t has returned and was asked for a registered file
DeletedRegistered(t) ==
    /\ Returned(t, "delete")
    /\ FileName(loc[t].path) \in DOMAIN before[t].fi

\* C11: when the delete of a registered file returns, every block id of the
\* file is free, used_blocks is lower by the file's block count, every slot of
\* the other files is as it was, and file_exists is false, for a file of any
\* number of blocks.
C11_DeleteFrees ==
    \A t \in threads :
        DeletedRegistered(t) =>
            LET name == FileName(loc[t].path)
                meta == before[t].fi[name]
            IN  /\ loc[t].result = "ok"
                /\ ~file_exists(file_index, name)
                /\ \A b \in Range(BlockIdsOf(meta)) : block_table[b] = FreeEntry(b)
                /\ UsedBlocks(block_table) = UsedBlocks(before[t].bt) - meta.num_bloques
                /\ \A b \in DOMAIN block_table \ Range(BlockIdsOf(meta)) :
                       block_table[b] = before[t].bt[b]

\* C12: a delete of a registered file that has blocks succeeds whichever of its
\* requests the nodes answer: every slot of the file is freed, the record is
\* removed, and the reported number of deleted blocks counts answered requests
\* only.
C12_DeleteBestEffort ==
    \A t \in threads :
        (DeletedRegistered(t) /\ before[t].fi[FileName(loc[t].path)].bloques # NoneList) =>
            LET name == FileName(loc[t].path)
                meta == before[t].fi[name]
            IN  /\ loc[t].result = "ok"
                /\ ~file_exists(file_index, name)
                /\ \A b \in Range(BlockIdsOf(meta)) : block_table[b] = FreeEntry(b)
                /\ loc[t].deleted_count <= Cardinality(acks[t])

\* the delete of a file of two blocks returned success with none of its four
\* requests answered
C12_Witness ==
    \E t \in threads :
        /\ DeletedRegistered(t) /\ loc[t].result = "ok"
        /\ Len(BlockIdsOf(before[t].fi[FileName(loc[t].path)])) = 2
        /\ acks[t] = {} /\ loc[t].deleted_count = 0

\* the block the download of thread t is retrieving
CurrentBlock(t) == loc[t].bloques[loc[t].i + 1]

\* the download of thread t fails in this step for lack of data, writing nothing
FailsUnretrieved(t) ==
    /\ pc'[t] = "done" /\ loc'[t].result = "fail" /\ loc'[t].cause = "retrieve"
    /\ outputs' = outputs

\* data comes from active nodes only, and a download that got a block from
\* neither node fails in that step and writes nothing
RetrievalCommon(t) ==
    /\ loc[t].op = "download" =>
           \A a \in acks'[t] \ acks[t] : a[2] \in Range(loc[t].active)
    /\ (pc[t] = "dl_replica" /\ pc'[t] # "dl_replica"
        /\ <<CurrentBlock(t), loc[t].entry.nodo_replica, "data">> \notin acks'[t])
       => FailsUnretrieved(t)

\* C13, as stated: per block, the primary is asked only if it is active; the
\* replica is attempted exactly when the primary yielded no data (being
\* inactive or not); when neither yields data the download fails and writes no
\* output.
C13_RetrievalOrder ==
    [][\A t \in threads :
          /\ RetrievalCommon(t)
          /\ (pc[t] = "dl_primary" /\ pc'[t] # "dl_primary") =>
                 (pc'[t] = "dl_replica" <=>
                     <<CurrentBlock(t), loc[t].entry.nodo_primario, "data">> \notin acks'[t])]_vars

\* C13, amended: the replica is attempted exactly when the primary yielded no
\* data and the block's entry names a replica node; an entry that a concurrent
\* delete has freed names none, and the download then fails after the primary
\* step, writing no output.
C13_RetrievalOrderNamedReplica ==
    [][\A t \in threads :
          /\ RetrievalCommon(t)
          /\ (pc[t] = "dl_primary" /\ pc'[t] # "dl_primary") =>
                 LET nodata == <<CurrentBlock(t), loc[t].entry.nodo_primario, "data">> \notin acks'[t]
                 IN  /\ pc'[t] = "dl_replica" <=> (nodata /\ loc[t].entry.nodo_replica # None)
                     /\ (nodata /\ loc[t].entry.nodo_replica = None) => FailsUnretrieved(t)]_vars

\* a download succeeded in which the primary of a block was asked and yielded
\* nothing and the replica yielded the block
C13_Witness ==
    \E t \in threads :
        /\ Returned(t, "download") /\ loc[t].result = "ok"
        /\ \E b \in DOMAIN block_table, p, r \in DOMAIN nodes :
               /\ <<b, p, "asked">> \in acks[t] /\ <<b, p, "data">> \notin acks[t]
               /\ <<b, r, "data">> \in acks[t]

\* the node the download of thread t asks in this step
AskedNode(t) ==
    IF pc[t] = "dl_primary" THEN loc[t].entry.nodo_primario ELSE loc[t].entry.nodo_replica

\* the download of thread t retrieves a payload in this step
Retrieves(t) ==
    /\ pc[t] \in {"dl_primary", "dl_replica"} /\ pc'[t] # pc[t]
    /\ <<CurrentBlock(t), AskedNode(t), "data">> \in acks'[t]

\* the payload it retrieves: the bytes of the node's block file
Payload(t) == nodes[AskedNode(t)][CurrentBlock(t)]

FailsWith(t, cause) ==
    pc'[t] = "done" /\ loc'[t].result = "fail" /\ loc'[t].cause = cause

\* C14: a download that retrieves a payload that does not hash to the value
\* recorded in the block's entry fails in that step and writes no output; one
\* whose last block is good but whose reassembled content does not hash to the
\* recorded whole-file hash fails and no output file is left.
C14_Integrity ==
    [][\A t \in threads :
          Retrieves(t) =>
              LET good == calculate_hash_bytes(Payload(t)) = loc[t].entry.hash
                  content == JoinBlocks(Append(loc[t].blocks_data, Payload(t)))
              IN  /\ ~good => (FailsWith(t, "block_hash") /\ outputs' = outputs)
                  /\ (/\ good /\ loc[t].i + 1 = Len(loc[t].bloques)
                      /\ calculate_file_hash(content) # loc[t].hash_completo)
                     => (FailsWith(t, "file_hash") /\ OutputPath \notin DOMAIN outputs')]_vars

\* a block file was overwritten and the download that retrieved it failed on
\* the block's hash, no output existing
C14_Witness ==
    \E t \in threads :
        /\ Returned(t, "download") /\ loc[t].cause = "block_hash"
        /\ \E n \in DOMAIN nodes :
               \E b \in DOMAIN nodes[n] : nodes[n][b] = Corrupted(StoredNodes[n][b])
        /\ OutputPath \notin DOMAIN outputs

\* C15: a health check pings every active worker whose last heartbeat is older
\* than three timeouts; a node that does not answer is marked inactive in that
\* execution of the check, which visits every node, and is then not in
\* get_active_nodes().
C15_MarkedInactive ==
    [][/\ (hc.pc = "sleep" /\ hc'.pc = "check") => Range(hc'.rest) = DOMAIN node_status
       /\ (hc.pc = "check" /\ hc.rest # <<>> /\ hc' # hc) =>
              LET n == Head(hc.rest)
              IN  (/\ n \in Workers /\ node_status[n].activo /\ ~up[n]
                   /\ hc.current_time - node_status[n].ultimo_heartbeat > 3 * TimeoutSeconds)
                  => (hc'.pc = "mark" /\ hc'.node = n /\ ~hc'.ping_ok)
       /\ (hc.pc = "mark" /\ hc'.pc # "mark" /\ ~hc.ping_ok) =>
              /\ ~node_status'[hc.node].activo
              /\ hc.node \notin Range(get_active_nodes(node_status'))]_vars

\* a node that was discovered active and then stopped has been marked
\* inactive by a health check that has finished
C15_Witness ==
    \E n \in Workers :
        /\ n \in marked /\ ~up[n] /\ hc.pc = "sleep"
        /\ ~node_status[n].activo
        /\ node_status[n].ultimo_heartbeat = StartTime
        /\ n \notin Range(get_active_nodes(node_status))

\* C16: when the ping handler for a configured node returns, that node is
\* active and its last heartbeat is the current time.
C16_PingReinstates ==
    [][\A n \in DOMAIN node_status :
          (hp[n] = "stamp" /\ hp'[n] = "none") =>
              /\ node_status'[n].activo
              /\ node_status'[n].ultimo_heartbeat = clock]_vars

\* the second half of C16: a worker that stays up from some moment on is
\* active again and again, whatever the health checks did before
C16_EventuallyActive ==
    \A n \in 2..HbNumNodes : (<>[]up[n]) => []<>(n \in Range(get_active_nodes(node_status)))

\* the public operations of the orchestrator
PublicOps == {"upload", "download", "delete", "list", "info", "stats"}

\* C17: every public operation that has ended returned a result (success or
\* failure); none let a fault reach its caller.
C17_NoFaultEscapes ==
    \A t \in threads :
        (pc[t] = "done" /\ loc[t].op \in PublicOps) => loc[t].result \in {"ok", "fail"}

\* the least number of blocks of block_size bytes that hold size bytes
Ceil(size, block_size) ==
    CHOOSE n \in 0..size : n * block_size >= size /\ (n = 0 \/ (n - 1) * block_size < size)

\* the shape of the blocks of a file: their number, no block empty or longer
\* than the block size, only the last one shorter
SplitShape(datas, content, block_size) ==
    /\ Len(datas) = Ceil(Len(content), block_size)
    /\ \A k \in 1..Len(datas) :
          /\ Len(datas[k]) >= 1
          /\ Len(datas[k]) <= block_size
          /\ k < Len(datas) => Len(datas[k]) = block_size

\* C18: for every file content and every block size, split yields
\* ceil(len / block_size) blocks, each of at most block_size bytes and only the
\* last one shorter, and the blocks written in their order (to the output
\* directly, or to block files joined by join_blocks_to_file) reproduce the
\* content, with its hash.
C18_CodecRoundTrip ==
    /\ codec.phase \in {"memory", "written"} =>
          SplitShape([k \in 1..Len(codec.blocks) |-> codec.blocks[k].data],
                     codec.content, codec.block_size)
    /\ codec.phase \in {"blocks", "joined"} =>
          /\ \A k \in 1..Len(codec.infos) : block_filename(k - 1) \in DOMAIN codec.dir
          /\ SplitShape([k \in 1..Len(codec.infos) |-> codec.dir[block_filename(k - 1)]],
                        codec.content, codec.block_size)
    /\ codec.phase \in {"written", "joined"} =>
          /\ codec.ok
          /\ codec.out = codec.content
          /\ calculate_file_hash(codec.out) = calculate_file_hash(codec.content)

\* a file of two blocks, the last one shorter, was split and joined
C18_Witness ==
    /\ codec.phase \in {"written", "joined"}
    /\ Len(codec.content) > codec.block_size
    /\ Len(codec.content) % codec.block_size # 0
    /\ codec.out # <<>>

\* C19: between the calls of the metadata manager the two files, read back,
\* give the block table and the file index held in memory: every call that
\* changed a table saved both before it released the lock.
C19_WriteThrough ==
    load_from_disk(disk) = [block_table |-> block_table, file_index |-> file_index]

\* an upload registered its file and a later delete freed a slot: allocate,
\* register and free have each written the files
C19_Witness ==
    /\ \E t \in threads : Returned(t, "upload") /\ loc[t].result = "ok"
    /\ \E t \in threads : loc[t].op = "delete" /\ loc[t].i > 0
    /\ \E kv \in disk.block_table : kv[2].estado = "ocupado"
    /\ \E kv \in disk.file_index : TRUE

\* C20: the bytes of the block files a node holds never exceed its capacity.
C20_CapacityBound ==
    HeldBytes(local_store.blocks) <= NodeCapacity

\* both nodes of the blocks 0..last of the upload of thread t have acknowledged
\* the store
AckedUpTo(t, last) ==
    \A k \in 0..last :
        LET a == Assignment(loc[t].free_blocks, loc[t].active, k)
        IN  /\ <<a.block_id, a.primary_node>> \in acks[t]
            /\ <<a.block_id, a.replica_node>> \in acks[t]

\* the slot b becomes occupied in this step
BecomesOccupied(b) ==
    block_table[b].estado = "libre" /\ block_table'[b].estado = "ocupado"

\* the thread whose upload allocates slot b in this step
Allocator(t, b) ==
    /\ pc[t] = "up_allocate" /\ pc'[t] # "up_allocate"
    /\ Assignment(loc[t].free_blocks, loc[t].active, loc[t].i).block_id = b

\* C21 as stated: a slot becomes occupied only in a step of an upload all of
\* whose blocks have been acknowledged by both their nodes, and a file is
\* registered only by an upload that has allocated all its blocks.
C21_AllocateAfterAllSent ==
    [][/\ \A b \in DOMAIN block_table :
             BecomesOccupied(b) =>
                 \E t \in threads :
                     Allocator(t, b) /\ AckedUpTo(t, Len(loc[t].free_blocks) - 1)
       /\ \A name \in DOMAIN file_index' :
             ~file_exists(file_index, name) =>
                 \E t \in threads :
                     /\ pc[t] = "up_register" /\ FileName(loc[t].path) = name
                     /\ loc[t].i = Len(loc[t].free_blocks)]_vars

\* C21: the slot of block i of an upload becomes occupied only after both
\* nodes of the blocks 0..i have acknowledged them (the later blocks are sent
\* after it), and a file is registered only by an upload that has allocated
\* all its blocks.
C21_AllocateAfterOwnSend ==
    [][/\ \A b \in DOMAIN block_table :
             BecomesOccupied(b) =>
                 \E t \in threads : Allocator(t, b) /\ AckedUpTo(t, loc[t].i)
       /\ \A name \in DOMAIN file_index' :
             ~file_exists(file_index, name) =>
                 \E t \in threads :
                     /\ pc[t] = "up_register" /\ FileName(loc[t].path) = name
                     /\ loc[t].i = Len(loc[t].free_blocks)]_vars

\* the first slot of an upload of two blocks is occupied while its second
\* block has been acknowledged by no node
C21_Witness ==
    \E t \in threads :
        /\ pc[t] = "up_send_primary" /\ loc[t].i = 1
        /\ Len(loc[t].free_blocks) = 2
        /\ OccupiedBy(block_table, loc[t].free_blocks[1], FileName(loc[t].path))
        /\ \A a \in acks[t] : a[1] # loc[t].free_blocks[2]

\* the block with this id is stored on some node
StoredSomewhere(block_id) == \E n \in DOMAIN nodes : block_id \in DOMAIN nodes[n]

\* the upload of thread t runs: it has not returned
Uploading(t) == loc[t].op = "upload" /\ pc[t] \notin {"idle", "done"}

\* C22: at every moment of an upload, its rollback included, block k+1 of the
\* file is stored on a node only if block k of the file is stored too.
C22_BlockOrder ==
    \A t \in threads :
        Uploading(t) =>
            \A k \in 1..(Len(loc[t].free_blocks) - 1) :
                StoredSomewhere(loc[t].free_blocks[k + 1]) => StoredSomewhere(loc[t].free_blocks[k])

\* the ids get_free_blocks returned to the upload of the planner harness
PlannedIds == [k \in 1..Len(plan_out.value) |-> plan_out.value[k].block_id]

\* C23: get_free_blocks(count) returns exactly count distinct ids of free slots
\* when at least count slots are free and fails when fewer are; the block
\* table and the file index are the same after the call.
C23_FreeBlocks ==
    [][(plan_in = NoPlanCall /\ plan_in'.caller = "upload") =>
          /\ block_table' = block_table
          /\ file_index' = file_index
          /\ IF Cardinality(FreeIds(block_table)) >= plan_in'.num_blocks
             THEN /\ ~plan_out'.raised
                  /\ Len(plan_out'.value) = plan_in'.num_blocks
                  /\ \A k \in 1..Len(plan_out'.value) :
                        /\ plan_out'.value[k].block_id \in FreeIds(block_table)
                        /\ plan_out'.value[k].block_id \in FreeIds(block_table')
                        /\ \A j \in 1..Len(plan_out'.value) :
                              j # k => plan_out'.value[j].block_id # plan_out'.value[k].block_id
             ELSE plan_out'.raised /\ plan_out'.value = <<>>]_vars

\* two ids were returned from a table with an occupied slot below one of them,
\* and more free slots than were asked for
C23_Witness ==
    /\ plan_in.caller = "upload" /\ ~plan_out.raised
    /\ plan_in.num_blocks = 2 /\ Len(PlannedIds) = 2
    /\ Cardinality(FreeIds(block_table)) > 2
    /\ \E b \in DOMAIN block_table :
          block_table[b].estado = "ocupado" /\ b < PlannedIds[2]

\* C24: every free slot has file, index, primary node, replica node, size,
\* hash and creation time unset; every occupied slot has file, index, primary
\* node, replica node and hash set, and its primary node is not its replica
\* node.
C24_BlockSlot ==
    \A b \in DOMAIN block_table :
        LET e == block_table[b]
        IN  /\ e.block_id = b
            /\ e.estado \in {"libre", "ocupado"}
            /\ e.estado = "libre" =>
                  /\ e.archivo = NoneStr /\ e.parte = None
                  /\ e.nodo_primario = None /\ e.nodo_replica = None
                  /\ e.tamano_bytes = None /\ e.hash = NoHash
                  /\ e.fecha_creacion = NoneStr
            /\ e.estado = "ocupado" =>
                  /\ e.archivo # NoneStr /\ e.parte # None
                  /\ e.nodo_primario # None /\ e.nodo_replica # None
                  /\ e.hash # NoHash
                  /\ e.nodo_primario # e.nodo_replica

\* a slot is occupied and another is free after the rollback of an upload
\* freed a slot it had allocated
C24_Witness ==
    /\ \E t \in threads :
          /\ Returned(t, "upload") /\ loc[t].cause = "send"
          /\ Cardinality({a \in acks[t] : a[1] = loc[t].free_blocks[1]}) = 2
    /\ \E b \in DOMAIN block_table : block_table[b].estado = "ocupado"
    /\ \E b \in DOMAIN block_table : block_table[b].estado = "libre"

\* C25: every registered file record lists its blocks as a sequence whose
\* length is its number of blocks, the number of blocks of the file, and its
\* total size is the size of the file, an integer.
C25_FileRecordShape ==
    \A name \in DOMAIN file_index :
        LET meta == file_index[name]
        IN  /\ meta.nombre = name
            /\ meta.bloques # NoneList
            /\ Len(BlockIdsOf(meta)) = meta.num_bloques
            /\ meta.num_bloques = Len(BlocksOf(name))
            /\ meta.tamano_total # None
            /\ meta.tamano_total = Len(local_files[name])

\* C26: a manager started over the files of a stopped one has the tables the
\* stopped one had (those of its last completed call when it was stopped
\* inside a call), and a manager started without files has total_blocks free
\* slots and an empty file index.
C26_RestartRecovers ==
    /\ proc.pc # "failed"
    /\ proc.started = "loaded" => proc.mem \in {proc.at_stop, proc.complete}
    /\ proc.started = "initialized" => proc.mem = EmptyTables(TotalBlocks)

----------------------------------------------------------------------------
(* The coordinator's own entry of the node table *)

\* C27: the coordinator's own node status is active in every reachable state,
\* whatever discovery, the health loop and the received pings did, and the
\* list returned by get_active_nodes never holds the coordinator's id
C27_CoordinatorActive ==
    /\ node_status[CoordinatorId].activo
    /\ \A k \in DOMAIN get_active_nodes(node_status) :
           get_active_nodes(node_status)[k] # CoordinatorId

\* the health loop stands at the coordinator's own entry, whose heartbeat is
\* older than the threshold, after it has marked a worker inactive
C27_Witness ==
    /\ hc.pc = "check" /\ hc.rest # <<>>
    /\ Head(hc.rest) = CoordinatorId
    /\ IsStale(node_status[CoordinatorId], hc.current_time)
    /\ marked # {}
    /\ get_active_nodes(node_status) # <<>>

----------------------------------------------------------------------------
(* What the health check does to a node *)

\* the step is the health check deciding about the node at the head of its list
HealthDecides == hc.pc = "check" /\ hc.rest # <<>> /\ hc' # hc

\* the step is the health check writing the outcome of its confirmation ping
HealthWrites == hc.pc = "mark" /\ hc'.pc # "mark"

\* the last heartbeat of node n is more than three timeouts old at time now
OlderThanThreshold(n, now) == now - node_status[n].ultimo_heartbeat > 3 * TimeoutSeconds

\* the health check pings a node only if the node is active and its heartbeat
\* is older than the threshold, and the decision itself changes no node
C28_PingsOnlyStale ==
    [][HealthDecides =>
          /\ node_status' = node_status
          /\ hc'.pc = "mark" =>
                 /\ node_status[hc'.node].activo
                 /\ OlderThanThreshold(hc'.node, clock)]_vars

\* the health check marks a node inactive only after a failed ping and only
\* while the node's last heartbeat is older than the threshold
C28_DemotesOnlyStale ==
    [][(HealthWrites /\ ~node_status'[hc.node].activo) =>
          /\ ~hc.ping_ok
          /\ OlderThanThreshold(hc.node, clock)]_vars

\* a successful confirmation ping leaves the node active with a last heartbeat
\* that is the time of the check and not older than the one it had
C28_PingRefreshes ==
    [][(HealthWrites /\ hc.ping_ok) =>
          /\ node_status'[hc.node].activo
          /\ node_status'[hc.node].ultimo_heartbeat = hc.current_time
          /\ node_status'[hc.node].ultimo_heartbeat >= node_status[hc.node].ultimo_heartbeat]_vars

\* the health check writes only to the node it pinged, which is still active
C28_InactiveUntouched ==
    [][HealthWrites =>
          /\ node_status[hc.node].activo
          /\ \A n \in DOMAIN node_status : n # hc.node => node_status'[n] = node_status[n]]_vars

\* C28: the health check marks an active node inactive only when its last
\* heartbeat is more than three timeouts old and the confirmation ping failed;
\* a node with a younger heartbeat is neither pinged nor marked, a successful
\* confirmation ping refreshes the last heartbeat, and a node that is already
\* inactive is never changed by the check
C28_HealthLoop ==
    [][/\ HealthDecides =>
              /\ node_status' = node_status
              /\ hc'.pc = "mark" =>
                     /\ node_status[hc'.node].activo
                     /\ OlderThanThreshold(hc'.node, clock)
       /\ (HealthWrites /\ ~node_status'[hc.node].activo) =>
              /\ ~hc.ping_ok
              /\ OlderThanThreshold(hc.node, clock)
       /\ (HealthWrites /\ hc.ping_ok) =>
              /\ node_status'[hc.node].activo
              /\ node_status'[hc.node].ultimo_heartbeat = hc.current_time
              /\ node_status'[hc.node].ultimo_heartbeat >= node_status[hc.node].ultimo_heartbeat
       /\ HealthWrites =>
              /\ node_status[hc.node].activo
              /\ \A n \in DOMAIN node_status : n # hc.node => node_status'[n] = node_status[n]]_vars

\* what holds of the check as it read the node: it pings only an active node
\* whose heartbeat was older than the threshold at the time the check began,
\* writes only to the node it pinged, marks it inactive only after a failed
\* ping and stamps it with the time the check began after an answered one
C28_AsRead ==
    [][/\ HealthDecides =>
              /\ node_status' = node_status
              /\ hc'.pc = "mark" =>
                     /\ node_status[hc'.node].activo
                     /\ OlderThanThreshold(hc'.node, hc.current_time)
       /\ HealthWrites =>
              /\ node_status[hc.node].activo
              /\ \A n \in DOMAIN node_status : n # hc.node => node_status'[n] = node_status[n]
              /\ ~node_status'[hc.node].activo => ~hc.ping_ok
              /\ hc.ping_ok => node_status'[hc.node] =
                     [activo |-> TRUE, ultimo_heartbeat |-> hc.current_time]]_vars

----------------------------------------------------------------------------
(* Discovery at start-up *)

\* the outcomes of the pings _discover_nodes made to node n
PingsTo(n) == SelectSeq(dc.pings, LAMBDA p : p[1] = n)

\* C29: when the discovery of Coordinator.start returns, every configured node
\* other than the coordinator has been pinged once, is active with its last
\* heartbeat set if that ping was answered, and is inactive if it was not,
\* whatever the health check and the ping handlers did meanwhile
C29_Discovery ==
    [][(dc.pc = "next" /\ dc'.pc = "done") =>
          \A n \in Workers :
              /\ Len(PingsTo(n)) = 1
              /\ PingsTo(n)[1][2] =>
                     (node_status'[n].activo /\ node_status'[n].ultimo_heartbeat >= StartTime)
              /\ ~PingsTo(n)[1][2] => ~node_status'[n].activo]_vars

\* the same with the two causes of the other outcomes left out: a ping of the
\* node handled since start-up, and a health check that has marked the node
C29_DiscoveryAlone ==
    [][(dc.pc = "next" /\ dc'.pc = "done") =>
          \A n \in Workers :
              /\ Len(PingsTo(n)) = 1
              /\ (PingsTo(n)[1][2] /\ n \notin marked) =>
                     (node_status'[n].activo /\ node_status'[n].ultimo_heartbeat >= StartTime)
              /\ (~PingsTo(n)[1][2] /\ node_status'[n].ultimo_heartbeat = 0 /\ hp[n] = "none")
                     => ~node_status'[n].activo]_vars

----------------------------------------------------------------------------
(* Faults of a message handler *)

\* C30: when a registered handler raises, the endpoint's response is a message
\* of type error that carries the text of the fault, and the requester that
\* sent the request returns failure: the block was not sent, not retrieved,
\* not deleted
C30_ErrorReply ==
    /\ (net.pc \in {"processed", "returned"} /\ net.raised) =>
           /\ net.text # NoneStr
           /\ net.response.type = "error"
           /\ net.response.error = net.text
    /\ (net.pc = "returned" /\ net.raised) =>
           /\ ~net.ok
           /\ net.got = NoneList

\* a delete request whose handler raised was answered, the answer reached the
\* requester, and the requester returned failure; the block is still there
C30_Witness ==
    /\ net.pc = "returned" /\ net.raised
    /\ net.message.type = "delete_block"
    /\ net.received = ErrorMsg(NoGetText)
    /\ ~net.ok
    /\ net.message.block_id \in DOMAIN nodes[NetNode]

----------------------------------------------------------------------------
(* One request and one reply per connection *)

\* the request reached the endpoint and its connection has been handled
Handled == net.pc \in {"processed", "returned"} /\ net.connect = "ok" /\ net.send = "ok"

\* C31: the handling path of a connection reads one request, dispatches it to
\* the registered handler or to the default ping or status handler, sends one
\* reply and closes the connection, whatever the type of the message
C31_OneReply ==
    Handled => (net.read = 1 /\ net.sent = 1 /\ net.closed)

\* what holds: one request is read, the connection is closed, and one reply is
\* sent exactly when the type has a registered handler or is ping or
\* get_status; for any other type nothing is sent
C31_ReplyIfHandled ==
    Handled =>
        /\ net.read = 1 /\ net.closed
        /\ net.sent = (IF net.message.type \in net.handlers \cup {"ping", "get_status"} THEN 1 ELSE 0)
        /\ net.sent = 1 <=> net.response # NoMsg

----------------------------------------------------------------------------
(* One attempt per request, and no fault out of it *)

C32_WitnessRefused ==
    /\ net.pc = "returned"
    /\ net.connect = "refused"
    /\ net.attempts = 1
    /\ net.received = NoMsg

----------------------------------------------------------------------------
(* Framing round trip *)

\* C33: _receive_message applied to the bytes _send_message wrote returns the
\* message, in whatever chunks the stream delivers them; it reads the 4 bytes
\* of the length prefix before the body and as many body bytes as the prefix
\* says, and it returns None when the peer closes before any byte arrives or
\* before the body is complete
C33_FramingRoundTrip ==
    fr.pc = "returned" =>
        /\ fr.written = Len(frame_of(fr.text)) =>
               /\ fr.result = SomeList(fr.text)
               /\ Len(fr.length_data) = PrefixBytes
               /\ Len(fr.message_data) = Len(encode_utf8(fr.text))
        /\ fr.written < Len(frame_of(fr.text)) => fr.result = NoneList

\* what holds: the same when the first read yielded the four bytes of the
\* prefix, or all the bytes the peer wrote before it closed
C33_WholePrefix ==
    (fr.pc = "returned" /\ Len(fr.length_data) = Min(PrefixBytes, fr.written)) =>
        /\ fr.written = Len(frame_of(fr.text)) =>
               /\ fr.result = SomeList(fr.text)
               /\ Len(fr.message_data) = Len(encode_utf8(fr.text))
        /\ (fr.written < Len(frame_of(fr.text)) /\ fr.written \notin 1..(PrefixBytes - 1))
               => fr.result = NoneList

\* a whole frame was read in several chunks of the body and gave the message
C33_Witness ==
    /\ fr.pc = "returned"
    /\ fr.written = Len(frame_of(fr.text))
    /\ Len(fr.text) = MaxFrameText
    /\ fr.result = SomeList(fr.text)

----------------------------------------------------------------------------
(* The hash check of a received block *)

\* the upload_block request of the harness reached the node's handler
UploadHandled ==
    /\ Handled /\ net.handlers = NodeHandlers
    /\ net.message.type = "upload_block" /\ net.message.payload = "dict"

\* the hash of the payload of the request is not the hash the request carries
HashMismatch == calculate_hash_bytes(FromHex(net.message.data)) # net.message.hash

\* the node as the request left it
NodeNow ==
    [blocks |-> nodes[NetNode], bytes_usados |-> net.bytes_usados,
     bloques_almacenados |-> net.bloques_almacenados]

\* C34: a node stores the block of an upload_block request only if the hash of
\* the received payload equals the hash carried in the request; on a mismatch
\* it replies with an error, stores nothing and leaves its counters unchanged
C34_StoresOnlyVerified ==
    UploadHandled =>
        /\ HashMismatch =>
               /\ net.response.type = "error"
               /\ NodeNow = net.stored_before
        /\ NodeNow # net.stored_before => ~HashMismatch
        /\ net.response.type # "error" =>
               /\ ~HashMismatch
               /\ net.message.block_id \in DOMAIN nodes[NetNode]
               /\ nodes[NetNode][net.message.block_id] = FromHex(net.message.data)

\* an upload with a wrong hash for a block the node holds with another payload
\* was answered with an error, and the node still holds the old payload
C34_Witness ==
    /\ UploadHandled /\ HashMismatch
    /\ net.response.type = "error"
    /\ net.message.block_id \in DOMAIN nodes[NetNode]
    /\ nodes[NetNode][net.message.block_id] # FromHex(net.message.data)
    /\ net.bloques_almacenados = 1

----------------------------------------------------------------------------
(* The usage counters of a node *)

\* _calculate_space_usage: the counters as the block files give them
calculate_space_usage(blocks) ==
    [bloques_almacenados |-> Cardinality(DOMAIN blocks), bytes_usados |-> HeldBytes(blocks)]

\* C39: after any sequence of store and delete requests, a store of a block
\* the node already holds included, the node's block count is the number of
\* block files it holds and its byte count is the sum of their sizes, as
\* _calculate_space_usage would compute them
C39_CountersTrackContents ==
    /\ net.bloques_almacenados = calculate_space_usage(nodes[NetNode]).bloques_almacenados
    /\ net.bytes_usados = calculate_space_usage(nodes[NetNode]).bytes_usados

\* what holds: a request other than a store of a block the node already holds
\* changes the counters by what it changes in the block files
C39_ExceptOverwrite ==
    [][(net.pc = "sent" /\ net'.pc = "processed"
        /\ ~(net.message.type = "upload_block" /\ net.message.block_id \in DOMAIN nodes[NetNode])) =>
          /\ net'.bloques_almacenados - calculate_space_usage(nodes'[NetNode]).bloques_almacenados
                 = net.bloques_almacenados - calculate_space_usage(nodes[NetNode]).bloques_almacenados
          /\ net'.bytes_usados - calculate_space_usage(nodes'[NetNode]).bytes_usados
                 = net.bytes_usados - calculate_space_usage(nodes[NetNode]).bytes_usados]_vars

----------------------------------------------------------------------------
(* Concurrent uploads *)

\* node n holds for block b a payload whose hash is the one recorded in the
\* block's entry
HoldsRecorded(n, b) ==
    /\ n \in DOMAIN nodes
    /\ b \in DOMAIN nodes[n]
    /\ calculate_hash_bytes(nodes[n][b]) = block_table[b].hash

\* every block of the registered file name is held, as recorded, by its
\* primary and by its replica node
Intact(name) ==
    \A k \in 1..Len(BlockIdsOf(file_index[name])) :
        LET b == BlockIdsOf(file_index[name])[k]
        IN  /\ HoldsRecorded(block_table[b].nodo_primario, b)
            /\ HoldsRecorded(block_table[b].nodo_replica, b)

\* the only operations so far are two uploads of different files, both ended,
\* and neither ended on an unanswered or refused store request or for want of
\* active nodes
TwoUploadsEnded ==
    /\ ops = MaxOps - 2
    /\ \A t \in threads : Returned(t, "upload")
    /\ \A t \in threads : loc[t].cause \notin {"send", "nodes"}
    /\ \A t, u \in threads : t # u => loc[t].path # loc[u].path

\* C35: after any interleaving of two uploads of different files, every
\* registered file has on the primary and on the replica node of each of its
\* blocks a payload whose hash is the one recorded in the block's entry
C35_UploadsDoNotCorrupt ==
    TwoUploadsEnded => \A name \in DOMAIN file_index : Intact(name)

----------------------------------------------------------------------------
(* a delete beside uploads *)

\* thread t takes a step of delete_file that resets slots: the free_block of
\* one block or the final metadata.delete_file
DeleteResets(t) ==
    /\ pc[t] \in {"de_free", "de_file"}
    /\ loc[t].op = "delete"
    /\ <<pc[t], loc[t]>>' # <<pc[t], loc[t]>>

\* slot b is occupied by a file other than name
OwnedByOther(b, name) ==
    /\ block_table[b].estado = "ocupado"
    /\ block_table[b].archivo # name

\* C36: no step of a delete, neither the per-block free nor the removal of the
\* file record, sets free a slot that a different file occupies at that moment
C36_DeleteFreesOwn ==
    [][\A t \in threads : DeleteResets(t) =>
          \A b \in DOMAIN block_table :
              OwnedByOther(b, loc[t].path) => block_table'[b].estado = "ocupado"]_vars

----------------------------------------------------------------------------
(* slots without a record *)

\* slot b is occupied and the record of the file named as its owner lists it
ListedByOwner(b) ==
    /\ file_exists(file_index, block_table[b].archivo)
    /\ file_index[block_table[b].archivo].bloques # NoneList
    /\ b \in Range(BlockIdsOf(file_index[block_table[b].archivo]))

\* C37: in every state in which no upload is in progress, every occupied slot
\* is listed in the block ids of the registered file named as its owner
C37_NoLeakedSlots ==
    (\A t \in threads : ~Uploading(t)) =>
        \A b \in DOMAIN block_table :
            block_table[b].estado = "ocupado" => ListedByOwner(b)

----------------------------------------------------------------------------
(* what a failed upload leaves on the nodes *)

\* the upload of thread t returned a failure to send a block, and every delete
\* request of its rollback was answered
FailedSendRolledBack(t) ==
    /\ Returned(t, "upload")
    /\ loc[t].cause = "send"
    /\ loc[t].rollback_answered

\* C38: after an upload failed because a send of block i failed, and its
\* rollback reached every node, no node holds a payload under a block id of
\* that upload, the id of block i included
C38_NoOrphanPayloads ==
    \A t \in threads :
        FailedSendRolledBack(t) =>
            \A k \in 1..Len(loc[t].free_blocks) : ~StoredSomewhere(loc[t].free_blocks[k])

----------------------------------------------------------------------------
(* a download with one good copy of each block *)

\* node n is in the active list of t's download and holds for slot b a payload
\* with the hash recorded in the slot's entry
GoodCopy(t, n, b) ==
    /\ n \in Range(loc[t].active)
    /\ HoldsRecorded(n, b)

\* the download of thread t gives up at this step because the payload it
\* retrieved for its current block has not the recorded hash
DownloadRejectsBlock(t) ==
    /\ pc[t] \in {"dl_primary", "dl_replica"}
    /\ loc[t].op = "download"
    /\ pc'[t] = "done"
    /\ loc'[t].result = "fail"
    /\ loc'[t].cause = "block_hash"

\* the file is still registered and the entry of the current block is the one
\* the download read
EntryUnchanged(t) ==
    /\ file_exists(file_index, loc[t].path)
    /\ loc[t].entry = EntryOf(block_table, CurrentBlock(t))

\* C40: a download of a registered file does not fail on a block of which the
\* primary or the replica node is active and holds a payload with the hash of
\* the block's entry, whatever the other copy is
C40_DownloadSurvivesBadCopy ==
    [][\A t \in threads :
          (DownloadRejectsBlock(t) /\ EntryUnchanged(t)) =>
              /\ ~GoodCopy(t, loc[t].entry.nodo_primario, CurrentBlock(t))
              /\ ~GoodCopy(t, loc[t].entry.nodo_replica, CurrentBlock(t))]_vars

====
